---------------------------- MODULE Spec2Model ----------------------------
(***************************************************************************)
(* A model of the tooey TUI core (github.com/stukennedy/tooey):            *)
(*   - input:  parseInput and its helpers, ReadKeys (raw byte reader and   *)
(*             key parser goroutines), WatchResize                         *)
(*   - layout: Layout, layoutRow/Column/Box/Text, measureWidth/Height,     *)
(*             wrapText                                                    *)
(*   - app:    App.Run, the event loop, with its command and subscription  *)
(*             goroutines                                                  *)
(* Bytes and runes are integers, strings are sequences of them.  Go slices *)
(* are 0-based: data[i] of the source is data[i + 1] here, and the         *)
(* operators below keep the source's 0-based offsets.                      *)
(***************************************************************************)
EXTENDS Integers, Sequences, FiniteSets, TLC

VARIABLES
    \* ---- layout.wrapText applied to drawn inputs
    wrapS,        \* the string given to wrapText
    wrapW,        \* the maxWidth given to wrapText
    wrapOut,      \* [done |-> BOOLEAN, lines |-> the result]
    \* ---- layout.Layout applied to drawn inputs
    lyTree,       \* the node tree given to Layout
    lyW,          \* termW
    lyH,          \* termH
    lyOut,        \* [done |-> BOOLEAN, ln |-> the resulting LayoutNode]
    \* ---- input.ReadKeys: the terminal, the raw byte reader, the key parser
    tty,          \* what the reads of the terminal will return, in order
    stream,       \* all the bytes of tty, in order (never changes)
    reads0,       \* the reads of the terminal as they were at the start (never changes)
    cancelled,    \* ctx.Done() is closed
    rdPc,         \* raw byte reader: "read", "sendData", "sendErr", "done"
    rdRes,        \* the result of the reader's last Read
    rawCh,        \* rawCh: the readResults buffered
    rawClosed,    \* rawCh is closed
    psPc,         \* key parser: "recv", "send", "escWait", "done"
    psPending,    \* the keys the parser still has to send for the data it has taken
    psAfter,      \* where the parser goes once they are sent: "recv", "escWait", "done"
    psWhy,        \* why the parser returned: "", "ctx", "readErr", "rawClosed"
    pasteBuf,     \* [some |-> pasteBuf != nil, buf |-> its bytes]
    keyCh,        \* ch: the keys buffered
    keyClosed,    \* ch is closed
    emitted,      \* every key sent on ch so far, in order
    timedOut,     \* the ESC wait has timed out at least once
    \* ---- input.WatchResize
    winchLeft,    \* the SIGWINCH signals the terminal will still raise
    sigCh,        \* sigCh: the number of signals buffered
    wrPc,         \* resize watcher: "wait", "send", "done"
    wrSize,       \* the TermSize() the watcher is about to send
    resizeCh,     \* ch of WatchResize: the ResizeMsgs buffered
    resizeClosed, \* ch of WatchResize is closed
    \* ---- app.App.Run
    ctxCancelled, \* the context given to Run has been cancelled
    lpPc,         \* event loop: "select", "drain", "update", "render", "done",
                  \* "panicked", "crashed"
    ret,          \* what Run returned: "" (still running), "nil", "ctxErr"
    exitWhy,      \* the return statement Run left by: "ctx", "keyClosed", "ctrlC", "nilModel",
                  \* or the panic that ended it: "updatePanic", "viewPanic", "taskPanic"
    out,          \* what Run has written to the output, as the calls of package ansi
    dims,         \* <<width, height>>
    prevBuf,      \* the dimensions of prevBuf, <<>> when prevBuf == nil
    needsRender,  \* needsRender
    msgs,         \* msgs: the batch collected
    upI,          \* the index in msgs of the next message of the update loop
    fmOps,        \* the calls made on the focus manager before update, in order
    lastUpdate,   \* the message of the latest call of a.Update for the batch, NoMsg after the frame
    cmdCh,        \* cmdCh: the messages buffered
    tasks,        \* the goroutines started for commands and subscriptions
    updated,      \* every message a.Update has been called with so far, in order
    cmdSent,      \* every message sent on cmdCh so far, in order
    ticked,       \* a tick of frameTicker was received since the latest frame
    \* ---- ansi.Render applied to the diff of two painted buffers
    bufPrev,      \* the previous frame's buffer: rows of cells
    bufNext,      \* the new frame's buffer
    paints,       \* the number of cells painted so far
    frame,        \* [done |-> BOOLEAN, changes |-> the diff, out |-> what Render wrote]
    \* ---- input.parseInput applied to drawn inputs
    piData,       \* the bytes given to parseInput
    piRows,       \* the rows of the byte-to-key table piData was put together from
    piOut,        \* [done |-> BOOLEAN, keys |-> the result]
    \* ---- component.TextInput
    textInput,    \* the TextInput the program holds
    tiLast        \* the operation that returned it: <<"NewTextInput">>, <<"Update", key type>>,
                  \* <<"Paste">>, <<"Submit">>

wrapVars == <<wrapS, wrapW, wrapOut>>
layoutVars == <<lyTree, lyW, lyH, lyOut>>
readerVars == <<tty, stream, reads0, rdPc, rdRes, rawCh, rawClosed>>
parserVars == <<psPc, psPending, psAfter, psWhy, pasteBuf, keyCh, keyClosed, emitted, timedOut>>
keysVars == <<readerVars, parserVars, cancelled>>
watchVars == <<winchLeft, sigCh, wrPc, wrSize, resizeCh, resizeClosed>>
loopVars == <<ctxCancelled, lpPc, ret, exitWhy, out, dims, prevBuf, needsRender, msgs, upI,
              fmOps, lastUpdate, cmdCh, tasks, updated, cmdSent, ticked>>
appVars == <<watchVars, loopVars>>
renderVars == <<bufPrev, bufNext, paints, frame>>
parseVars == <<piData, piRows, piOut>>
textVars == <<textInput, tiLast>>
pureVars == <<wrapVars, layoutVars, renderVars, parseVars, textVars>>
vars == <<wrapVars, layoutVars, keysVars, appVars, renderVars, parseVars, textVars>>

(***************************************************************************)
(* Generic helpers                                                         *)
(***************************************************************************)
Min(S) == CHOOSE x \in S : \A y \in S : x <= y
Max(S) == CHOOSE x \in S : \A y \in S : x >= y

\* Go's data[from:to]
Slice(data, from, to) == SubSeq(data, from + 1, to)
\* Go's data[from:]
SliceFrom(data, from) == SubSeq(data, from + 1, Len(data))
\* Go's data[i]
At(data, i) == data[i + 1]

\* all sequences over S of length at most n
RECURSIVE SeqsUpTo(_, _)
SeqsUpTo(S, n) ==
    IF n = 0 THEN {<<>>}
    ELSE LET shorter == SeqsUpTo(S, n - 1)
         IN shorter \cup {Append(s, x) : s \in {t \in shorter : Len(t) = n - 1}, x \in S}

(***************************************************************************)
(* input.parseInput and its helpers (src/input/input.go)                   *)
(***************************************************************************)
ESC == 27
SP == 32
TAB == 9
NL == 10
LBRACKET == 91
TILDE == 126
CR == 13

\* Key{Type: t}; Rune and Text keep their zero values
Key(t) == [Type |-> t, Rune |-> 0, Text |-> <<>>]
RuneKeyOf(r) == [Type |-> "RuneKey", Rune |-> r, Text |-> <<>>]
PasteKey(text) == [Type |-> "Paste", Rune |-> 0, Text |-> text]

\* ESC [ 2 0 0 ~
pasteStart == <<27, 91, 50, 48, 48, 126>>
\* ESC [ 2 0 1 ~
pasteEnd == <<27, 91, 50, 48, 49, 126>>

\* hasPrefixAt(data, offset, prefix)
hasPrefixAt(data, offset, prefix) ==
    IF offset + Len(prefix) > Len(data) THEN FALSE
    ELSE \A i \in 0..(Len(prefix) - 1) : At(data, offset + i) = At(prefix, i)

\* indexBytes(haystack, needle): the first occurrence, or -1
indexBytes(haystack, needle) ==
    LET found == {i \in 0..(Len(haystack) - Len(needle)) : hasPrefixAt(haystack, i, needle)}
    IN IF found = {} THEN 0 - 1 ELSE Min(found)

\* decodeRune(data), for non-empty data: [r |-> the rune, size |-> bytes consumed]
RECURSIVE decodeCont(_, _, _, _)
\* the loop "for i := 1; i < size; i++ { r = r<<6 | rune(data[i]&0x3F) }"
decodeCont(data, i, size, r) ==
    IF i >= size THEN r
    ELSE decodeCont(data, i + 1, size, r * 64 + (At(data, i) % 64))

\* decodeRune without the test len(data) < size: a truncated sequence counts for
\* its full size
decodeRune_noLenTest(data) ==
    LET b == At(data, 0)
        size == CASE b >= 192 /\ b < 224 -> 2
                  [] b >= 224 /\ b < 240 -> 3
                  [] b >= 240 /\ b < 248 -> 4
                  [] OTHER -> 0
        r0 == CASE size = 2 -> b % 32
                [] size = 3 -> b % 16
                [] OTHER -> b % 8
    IN IF b < 128 THEN [r |-> b, size |-> 1]
       ELSE IF size = 0 THEN [r |-> 63, size |-> 1]
       ELSE IF Len(data) < size THEN [r |-> 63, size |-> size]
       ELSE [r |-> decodeCont(data, 1, size, r0), size |-> size]

decodeRune(data) ==
    LET b == At(data, 0)
        \* b&0xE0 == 0xC0, b&0xF0 == 0xE0, b&0xF8 == 0xF0
        size == CASE b >= 192 /\ b < 224 -> 2
                  [] b >= 224 /\ b < 240 -> 3
                  [] b >= 240 /\ b < 248 -> 4
                  [] OTHER -> 0
        r0 == CASE size = 2 -> b % 32
                [] size = 3 -> b % 16
                [] OTHER -> b % 8
    IN IF b < 128 THEN [r |-> b, size |-> 1]
       ELSE IF size = 0 THEN [r |-> 63, size |-> 1]
       ELSE IF Len(data) < size THEN [r |-> 63, size |-> 1]
       ELSE [r |-> decodeCont(data, 1, size, r0), size |-> size]

\* parseSGRButton(data): the digits before the first ';'
RECURSIVE parseSGRButtonFrom(_, _, _)
parseSGRButtonFrom(data, i, n) ==
    IF i >= Len(data) THEN n
    ELSE LET b == At(data, i)
         IN IF b = 59 THEN n
            ELSE IF b >= 48 /\ b <= 57
                 THEN parseSGRButtonFrom(data, i + 1, n * 10 + (b - 48))
                 ELSE parseSGRButtonFrom(data, i + 1, n)

parseSGRButton(data) == parseSGRButtonFrom(data, 0, 0)

\* the key type of a mouse button number if the wheel were reported as a click
mouseKeyType_click(btn) == "MouseClick"

\* the key type of a mouse button number
mouseKeyType(btn) ==
    CASE btn = 64 -> "MouseScrollUp"
      [] btn = 65 -> "MouseScrollDown"
      [] OTHER -> "MouseClick"

NoCSI == [key |-> Key("RuneKey"), consumed |-> 0]

\* parseCSI(data): [key, consumed]; consumed = 0 when no rule matches
parseCSI(data) ==
    LET n == Len(data)
        d(i) == At(data, i)
        single == CASE d(0) = 65 -> "Up"
                    [] d(0) = 66 -> "Down"
                    [] d(0) = 67 -> "Right"
                    [] d(0) = 68 -> "Left"
                    [] d(0) = 72 -> "Home"
                    [] d(0) = 70 -> "End"
                    [] d(0) = 90 -> "ShiftTab"
                    [] d(0) = 73 -> "FocusIn"
                    [] d(0) = 79 -> "FocusOut"
                    [] OTHER -> ""
        alt == IF n >= 4 /\ d(0) = 49 /\ d(1) = 59 /\ d(2) = 51
               THEN CASE d(3) = 65 -> "AltUp"
                      [] d(3) = 66 -> "AltDown"
                      [] d(3) = 67 -> "AltRight"
                      [] d(3) = 68 -> "AltLeft"
                      [] OTHER -> ""
               ELSE ""
        tilde == IF n >= 2 /\ d(1) = TILDE
                 THEN CASE d(0) = 51 -> "Delete"
                        [] d(0) = 53 -> "PageUp"
                        [] d(0) = 54 -> "PageDown"
                        [] OTHER -> ""
                 ELSE ""
        kitty == n >= 4 /\ d(0) = 49 /\ d(1) = 51 /\ d(2) = 59 /\ d(3) = 50
                 /\ n >= 5 /\ d(4) = 117
        \* the first j >= 1 with data[j] = 'M' or 'm'
        sgrEnds == IF n >= 1 /\ d(0) = 60
                   THEN {j \in 1..(n - 1) : d(j) = 77 \/ d(j) = 109}
                   ELSE {}
    IN IF n = 0 THEN NoCSI
       ELSE IF single # "" THEN [key |-> Key(single), consumed |-> 1]
       ELSE IF alt # "" THEN [key |-> Key(alt), consumed |-> 4]
       ELSE IF tilde # "" THEN [key |-> Key(tilde), consumed |-> 2]
       ELSE IF kitty THEN [key |-> Key("ShiftEnter"), consumed |-> 5]
       ELSE IF sgrEnds # {}
            THEN LET j == Min(sgrEnds)
                 IN [key |-> Key(mouseKeyType(parseSGRButton(Slice(data, 1, j)))),
                     consumed |-> j + 1]
       ELSE IF n >= 1 /\ d(0) = 77 /\ n >= 4
            \* btn := data[1] - 32 is a byte: it wraps modulo 256
            THEN [key |-> Key(mouseKeyType((d(1) - 32 + 256) % 256)), consumed |-> 4]
       ELSE NoCSI

\* skipCSI(data): the bytes up to and including the first final byte, or 0
skipCSI(data) ==
    LET finals == {j \in 0..(Len(data) - 1) : At(data, j) >= 64 /\ At(data, j) <= 126}
    IN IF finals = {} THEN 0 ELSE Min(finals) + 1

\* one iteration of parseInput's loop at position i < len(data):
\* [keys |-> what it appends, next |-> the new i, stop |-> it returns]
parseStep(data, i) ==
    LET b == At(data, i)
        one(k) == [keys |-> <<k>>, next |-> i + 1, stop |-> FALSE]
    IN IF hasPrefixAt(data, i, pasteStart)
       THEN LET start == i + Len(pasteStart)
                end == indexBytes(SliceFrom(data, start), pasteEnd)
            IN IF end >= 0
               THEN [keys |-> <<PasteKey(Slice(data, start, start + end))>>,
                     next |-> start + end + Len(pasteEnd), stop |-> FALSE]
               ELSE [keys |-> <<>>, next |-> i, stop |-> TRUE]
       ELSE IF b = ESC
       THEN LET isCSI == i + 1 < Len(data) /\ At(data, i + 1) = LBRACKET
                csi == IF isCSI THEN parseCSI(SliceFrom(data, i + 2)) ELSE NoCSI
                skipped == IF isCSI THEN skipCSI(SliceFrom(data, i + 2)) ELSE 0
            IN IF csi.consumed > 0
               THEN [keys |-> <<csi.key>>, next |-> i + 2 + csi.consumed, stop |-> FALSE]
               ELSE IF skipped > 0
               THEN [keys |-> <<>>, next |-> i + 2 + skipped, stop |-> FALSE]
               ELSE IF i + 1 < Len(data) /\ (At(data, i + 1) = CR \/ At(data, i + 1) = NL)
               THEN [keys |-> <<Key("ShiftEnter")>>, next |-> i + 2, stop |-> FALSE]
               ELSE one(Key("Escape"))
       ELSE IF b = CR THEN one(Key("Enter"))
       ELSE IF b = NL THEN one(Key("ShiftEnter"))
       ELSE IF b = TAB THEN one(Key("Tab"))
       ELSE IF b = 127 \/ b = 8 THEN one(Key("Backspace"))
       ELSE IF b = 3 THEN one(Key("CtrlC"))
       ELSE IF b = 4 THEN one(Key("CtrlD"))
       ELSE IF b = 26 THEN one(Key("CtrlZ"))
       ELSE IF b >= 32
       THEN LET dr == decodeRune(SliceFrom(data, i))
            IN [keys |-> <<RuneKeyOf(dr.r)>>, next |-> i + dr.size, stop |-> FALSE]
       ELSE [keys |-> <<>>, next |-> i + 1, stop |-> FALSE]

RECURSIVE parseFrom(_, _)
\* parseInput's loop from position i on
parseFrom(data, i) ==
    IF i >= Len(data) THEN <<>>
    ELSE LET st == parseStep(data, i)
         IN IF st.stop THEN st.keys
            ELSE st.keys \o parseFrom(data, st.next)

\* parseInput(data): the keys of data
parseInput(data) == parseFrom(data, 0)

(***************************************************************************)
(* input.ReadKeys (src/input/input.go): the raw byte reader goroutine and  *)
(* the key parser goroutine.  One action is one step of a goroutine up to  *)
(* its next blocking operation (a Read, a channel send or receive, a       *)
(* select).                                                                *)
(***************************************************************************)
\* rawCh := make(chan readResult, 4)
RawChCap == 4
\* ch := make(chan Key, 32)
KeyChCap == 32

readResult(data, err) == [data |-> data, err |-> err]
NoRead == readResult(<<>>, FALSE)
NilPaste == [some |-> FALSE, buf |-> <<>>]

\* r.Read(buf) returns: n > 0 bytes, an error, or both
ReaderRead ==
    /\ rdPc = "read"
    /\ tty # <<>>
    /\ rdRes' = Head(tty)
    /\ tty' = Tail(tty)
    /\ rdPc' = IF Len(Head(tty).data) > 0 THEN "sendData"
               ELSE IF Head(tty).err THEN "sendErr" ELSE "read"
    /\ UNCHANGED <<stream, reads0, rawCh, rawClosed>>

\* rawCh <- readResult{data: data}: blocks while rawCh is full
ReaderSendData ==
    /\ rdPc = "sendData"
    /\ Len(rawCh) < RawChCap
    /\ rawCh' = Append(rawCh, readResult(rdRes.data, FALSE))
    /\ rdPc' = IF rdRes.err THEN "sendErr" ELSE "read"
    /\ UNCHANGED <<tty, stream, reads0, rdRes, rawClosed>>

\* rawCh <- readResult{err: err}; return, and the deferred close(rawCh)
ReaderSendErr ==
    /\ rdPc = "sendErr"
    /\ Len(rawCh) < RawChCap
    /\ rawCh' = Append(rawCh, readResult(<<>>, TRUE))
    /\ rawClosed' = TRUE
    /\ rdPc' = "done"
    /\ UNCHANGED <<tty, stream, reads0, rdRes>>

\* the parser has keys to send and then goes to after; with nothing to send it is
\* there at once; returning runs the deferred close(ch)
ParserGoto(keys, after, why) ==
    /\ psPending' = keys
    /\ psAfter' = after
    /\ psPc' = IF keys # <<>> THEN "send" ELSE after
    /\ keyClosed' = (keys = <<>> /\ after = "done")
    /\ psWhy' = IF after = "done" THEN why ELSE psWhy

\* the keys and the new pasteBuf for data received while pasteBuf != nil
inPaste(buf, data) ==
    LET all == buf \o data
        end == indexBytes(all, pasteEnd)
        remainder == SliceFrom(all, end + Len(pasteEnd))
    IN IF end < 0
       THEN [keys |-> <<>>, paste |-> [some |-> TRUE, buf |-> all], after |-> "recv"]
       ELSE [keys |-> <<PasteKey(Slice(all, 0, end))>>
                      \o (IF Len(remainder) > 0 THEN parseInput(remainder) ELSE <<>>),
             paste |-> NilPaste, after |-> "recv"]

\* data ends with a lone ESC: the keys before it, then the wait
trailingEsc(data) ==
    [keys |-> IF Len(data) > 1 THEN parseInput(Slice(data, 0, Len(data) - 1)) ELSE <<>>,
     paste |-> NilPaste, after |-> "escWait"]

\* data contains a paste start marker at pasteIdx >= 0
withPasteStart(data, pasteIdx) ==
    LET before == IF pasteIdx > 0 THEN parseInput(Slice(data, 0, pasteIdx)) ELSE <<>>
        after == SliceFrom(data, pasteIdx + Len(pasteStart))
        endIdx == indexBytes(after, pasteEnd)
    IN IF endIdx >= 0
       THEN [keys |-> before \o parseInput(SliceFrom(data, pasteIdx)),
             paste |-> NilPaste, after |-> "recv"]
       ELSE [keys |-> before, paste |-> [some |-> TRUE, buf |-> after], after |-> "recv"]

\* what the parser does with data received in its outer select
onData(paste, data) ==
    IF paste.some THEN inPaste(paste.buf, data)
    ELSE IF At(data, Len(data) - 1) = ESC THEN trailingEsc(data)
    ELSE IF indexBytes(data, pasteStart) >= 0
         THEN withPasteStart(data, indexBytes(data, pasteStart))
    ELSE [keys |-> parseInput(data), paste |-> NilPaste, after |-> "recv"]

\* the same without the Escape of a follow-up that is no CSI continuation
onEscFollowUp_noEscape(data) ==
    IF At(data, 0) = LBRACKET
    THEN parseInput(<<ESC>> \o data)
    ELSE parseInput(data)

\* what the parser does with the data that follows a trailing ESC in time
onEscFollowUp(data) ==
    IF At(data, 0) = LBRACKET
    THEN parseInput(<<ESC>> \o data)
    ELSE <<Key("Escape")>> \o parseInput(data)

\* case rr, ok := <-rawCh of the outer select.  The reader sends its error
\* before it closes rawCh and the parser returns on the error, so the parser
\* never receives from the closed channel: the branch !ok has no action.
ParserRecv ==
    /\ psPc = "recv"
    /\ rawCh # <<>>
    /\ rawCh' = Tail(rawCh)
    /\ IF Head(rawCh).err
       THEN /\ ParserGoto(<<>>, "done", "readErr")
            /\ UNCHANGED pasteBuf
       ELSE LET r == onData(pasteBuf, Head(rawCh).data)
            IN /\ ParserGoto(r.keys, r.after, "")
               /\ pasteBuf' = r.paste
    /\ UNCHANGED <<keyCh, emitted, timedOut>>

\* send(ch, ctx, k), case ch <- k: the next key goes out
ParserSend ==
    /\ psPc = "send"
    /\ Len(keyCh) < KeyChCap
    /\ keyCh' = Append(keyCh, Head(psPending))
    /\ emitted' = Append(emitted, Head(psPending))
    /\ ParserGoto(Tail(psPending), psAfter, psWhy)
    /\ UNCHANGED <<rawCh, pasteBuf, timedOut>>

\* case <-ctx.Done() of the outer select, of the ESC wait and of send: return
ParserCancelled ==
    /\ psPc \in {"recv", "send", "escWait"}
    /\ cancelled
    /\ psPc' = "done"
    /\ psWhy' = IF psPc = "send" /\ psAfter = "done" THEN psWhy ELSE "ctx"
    /\ keyClosed' = TRUE
    /\ UNCHANGED <<psPending, psAfter, pasteBuf, keyCh, emitted, rawCh, timedOut>>

\* case rr2, ok := <-rawCh of the ESC wait
ParserEscRecv ==
    /\ psPc = "escWait"
    /\ rawCh # <<>>
    /\ rawCh' = Tail(rawCh)
    /\ IF Head(rawCh).err
       THEN ParserGoto(<<Key("Escape")>>, "done", "readErr")
       ELSE ParserGoto(onEscFollowUp(Head(rawCh).data), "recv", "")
    /\ UNCHANGED <<pasteBuf, keyCh, emitted, timedOut>>

\* the same with the Escape of the timeout lost
ParserEscTimeout_noEscape ==
    /\ psPc = "escWait"
    /\ ParserGoto(<<>>, "recv", "")
    /\ timedOut' = TRUE
    /\ UNCHANGED <<pasteBuf, keyCh, emitted, rawCh>>

\* case <-time.After(escTimeout) of the ESC wait
ParserEscTimeout ==
    /\ psPc = "escWait"
    /\ ParserGoto(<<Key("Escape")>>, "recv", "")
    /\ timedOut' = TRUE
    /\ UNCHANGED <<pasteBuf, keyCh, emitted, rawCh>>

\* the context given to ReadKeys is cancelled
CtxCancel ==
    /\ ~cancelled
    /\ cancelled' = TRUE

\* the receiver of ReadKeys' channel takes a key
KeysReceive ==
    /\ keyCh # <<>>
    /\ keyCh' = Tail(keyCh)

(***************************************************************************)
(* Specification SpecKeys: ReadKeys on a terminal that delivers one of the *)
(* byte streams below, cut into at most MaxReads reads at any positions,   *)
(* with a receiver that takes the keys and a context that may be cancelled *)
(* at any moment.                                                          *)
(***************************************************************************)
MaxReads == 3
MaxPasteLen == 2
LetterA == 97
LetterB == 98

RECURSIVE Flatten(_)
Flatten(chunks) == IF chunks = <<>> THEN <<>> ELSE Head(chunks) \o Flatten(Tail(chunks))

\* the ways to cut s into at most k non-empty chunks
RECURSIVE Chunkings(_, _)
Chunkings(s, k) ==
    IF s = <<>> THEN {<<>>}
    ELSE IF k = 1 THEN {<<s>>}
    ELSE {<<s>>} \cup
         UNION {{<<SubSeq(s, 1, i)>> \o rest :
                    rest \in Chunkings(SubSeq(s, i + 1, Len(s)), k - 1)} :
                i \in 1..(Len(s) - 1)}

\* the bytes a paste may carry here: a letter and Ctrl+C
PasteAlphabet == {LetterA, 3}
\* what may precede and follow a paste or an escape sequence
Around == {<<>>, <<LetterB>>}

\* streams with one well-formed bracketed paste
PasteStreams ==
    {pre \o pasteStart \o inner \o pasteEnd \o post :
        pre \in Around, inner \in SeqsUpTo(PasteAlphabet, MaxPasteLen), post \in Around}

\* ESC [ 1 ; 5 A (Ctrl+Up), a CSI sequence no rule of parseCSI matches
UnknownCSI == <<27, 91, 49, 59, 53, 65>>
\* streams with one unrecognized CSI sequence
CSIStreams == {pre \o UnknownCSI \o post : pre \in Around, post \in Around}

\* reads that deliver the chunks, the last followed by a failing read if failing
Reads(chunks, failing) ==
    [i \in 1..Len(chunks) |-> readResult(chunks[i], FALSE)]
    \o (IF failing THEN <<readResult(<<>>, TRUE)>> ELSE <<>>)

\* single letters, one per read, enough of them to fill rawCh and one more
Flood == [i \in 1..(RawChCap + 1) |-> <<LetterA>>]

KeysTtys ==
    {Reads(c, FALSE) : c \in UNION {Chunkings(s, MaxReads) : s \in PasteStreams}}
    \cup {Reads(c, f) : c \in UNION {Chunkings(s, MaxReads) : s \in CSIStreams},
                        f \in BOOLEAN}
    \cup {Reads(<<<<LetterA, ESC>>>>, TRUE), Reads(Flood, FALSE)}

RECURSIVE ReadBytes(_)
ReadBytes(reads) ==
    IF reads = <<>> THEN <<>> ELSE Head(reads).data \o ReadBytes(Tail(reads))

\* the goroutines of ReadKeys as ReadKeys starts them
KeysStart ==
    /\ cancelled = FALSE
    /\ rdPc = "read"
    /\ rdRes = NoRead
    /\ rawCh = <<>>
    /\ rawClosed = FALSE
    /\ psPc = "recv"
    /\ psPending = <<>>
    /\ psAfter = "recv"
    /\ psWhy = ""
    /\ pasteBuf = NilPaste
    /\ keyCh = <<>>
    /\ keyClosed = FALSE
    /\ emitted = <<>>
    /\ timedOut = FALSE

KeysInit ==
    /\ tty \in KeysTtys
    /\ stream = ReadBytes(tty)
    /\ reads0 = tty
    /\ KeysStart

KeysIdle ==
    /\ tty = <<>>
    /\ stream = <<>>
    /\ reads0 = <<>>
    /\ KeysStart

readerOnly == <<tty, stream, reads0, rdPc, rdRes, rawClosed>>
parserOnly == <<psPc, psPending, psAfter, psWhy, pasteBuf, keyClosed, emitted, timedOut>>
notKeys == <<pureVars, appVars>>

KeysNext ==
    \/ ReaderRead /\ UNCHANGED <<parserVars, cancelled, notKeys>>
    \/ ReaderSendData /\ UNCHANGED <<parserVars, cancelled, notKeys>>
    \/ ReaderSendErr /\ UNCHANGED <<parserVars, cancelled, notKeys>>
    \/ ParserRecv /\ UNCHANGED <<readerOnly, cancelled, notKeys>>
    \/ ParserSend /\ UNCHANGED <<readerOnly, cancelled, notKeys>>
    \/ ParserCancelled /\ UNCHANGED <<readerOnly, cancelled, notKeys>>
    \/ ParserEscRecv /\ UNCHANGED <<readerOnly, cancelled, notKeys>>
    \/ ParserEscTimeout /\ UNCHANGED <<readerOnly, cancelled, notKeys>>
    \/ CtxCancel /\ UNCHANGED <<readerVars, parserVars, notKeys>>
    \/ KeysReceive /\ UNCHANGED <<readerVars, parserOnly, cancelled, notKeys>>

(***************************************************************************)
(* Specification SpecEsc: ReadKeys on a terminal whose reads are at most   *)
(* MaxEscReads of the chunks below, which end in ESC, follow an ESC, or    *)
(* open and close a paste, with the same receiver and context as SpecKeys. *)
(***************************************************************************)
MaxEscReads == 3

ArrowUp == <<LBRACKET, 65>>
EscChunks ==
    {<<LetterA, ESC>>,              \* a letter, then ESC
     ArrowUp,                       \* [A, the rest of ESC [ A
     ArrowUp \o <<ESC>>,            \* the same, then another ESC
     <<LetterB>>,                   \* a letter
     pasteStart \o <<LetterA>>,     \* a paste begins
     pasteEnd \o <<ESC>>}           \* the paste ends, then ESC

\* the sequences of at most n chunks
RECURSIVE ChunkSeqs(_)
ChunkSeqs(n) ==
    IF n = 0 THEN {<<>>}
    ELSE LET shorter == ChunkSeqs(n - 1)
         IN shorter \cup {Append(c, k) : c \in shorter, k \in EscChunks}

EscTtys ==
    {Reads(c, FALSE) : c \in ChunkSeqs(MaxEscReads)}
    \cup {Reads(<<<<LetterA, ESC>>>>, TRUE)}

EscInit ==
    /\ tty \in EscTtys
    /\ stream = ReadBytes(tty)
    /\ reads0 = tty
    /\ KeysStart

(***************************************************************************)
(* Specification SpecEscFair: the same on at most MaxWaitReads reads, with *)
(* the parser goroutine scheduled whenever it can take a step: a goroutine *)
(* that can run is run, and the timer of time.After fires.                 *)
(***************************************************************************)
MaxWaitReads == 2

\* a read that ends in ESC, one that continues it, one that does not
WaitChunks == {<<LetterA, ESC>>, ArrowUp, <<LetterB>>}

RECURSIVE WaitSeqs(_)
WaitSeqs(n) ==
    IF n = 0 THEN {<<>>}
    ELSE LET shorter == WaitSeqs(n - 1)
         IN shorter \cup {Append(c, k) : c \in shorter, k \in WaitChunks}

WaitTtys ==
    {Reads(c, FALSE) : c \in WaitSeqs(MaxWaitReads)}
    \cup {Reads(<<<<LetterA, ESC>>>>, TRUE)}

WaitInit ==
    /\ tty \in WaitTtys
    /\ stream = ReadBytes(tty)
    /\ reads0 = tty
    /\ KeysStart

(***************************************************************************)
(* layout.wrapText (src/layout/layout.go)                                  *)
(***************************************************************************)

\* unicode.IsSpace on the runes below 0x100, as strings.Fields uses it
IsSpace(r) == r \in {9, 10, 11, 12, 13, 32, 133, 160}

\* strings.Split(s, "\n"): the paragraphs of s (always at least one)
RECURSIVE SplitNL(_)
SplitNL(s) ==
    LET nls == {i \in 1..Len(s) : s[i] = NL}
    IN IF nls = {} THEN <<s>>
       ELSE LET i == Min(nls)
            IN <<SubSeq(s, 1, i - 1)>> \o SplitNL(SubSeq(s, i + 1, Len(s)))

\* strings.TrimLeft(p, " \t")
TrimLeft(p) ==
    LET keep == {i \in 1..Len(p) : p[i] \notin {SP, TAB}}
    IN IF keep = {} THEN <<>> ELSE SubSeq(p, Min(keep), Len(p))

\* strings.Fields(s): the maximal runs of non-space runes of s
RECURSIVE Fields(_)
Fields(s) ==
    LET starts == {i \in 1..Len(s) : ~IsSpace(s[i])}
    IN IF starts = {} THEN <<>>
       ELSE LET b == Min(starts)
                ends == {i \in b..Len(s) : IsSpace(s[i])}
                e == IF ends = {} THEN Len(s) + 1 ELSE Min(ends)
            IN <<SubSeq(s, b, e - 1)>> \o Fields(SubSeq(s, e, Len(s)))

\* the loop over words[1:] with the test "lineLen+1+wLen < maxWidth"
RECURSIVE wrapWords_strict(_, _, _, _, _)
wrapWords_strict(words, leading, line, lineLen, maxWidth) ==
    IF words = <<>> THEN <<line>>
    ELSE LET w == Head(words)
             wLen == Len(w)
         IN IF lineLen + 1 + wLen < maxWidth
            THEN wrapWords_strict(Tail(words), leading, line \o <<SP>> \o w,
                                  lineLen + 1 + wLen, maxWidth)
            ELSE <<line>> \o wrapWords_strict(Tail(words), leading, leading \o w,
                                              Len(leading) + wLen, maxWidth)

\* the loop over words[1:] if it began the next line without the word that did
\* not fit
RECURSIVE wrapWords_lose(_, _, _, _, _)
wrapWords_lose(words, leading, line, lineLen, maxWidth) ==
    IF words = <<>> THEN <<line>>
    ELSE LET w == Head(words)
             wLen == Len(w)
         IN IF lineLen + 1 + wLen <= maxWidth
            THEN wrapWords_lose(Tail(words), leading, line \o <<SP>> \o w,
                                lineLen + 1 + wLen, maxWidth)
            ELSE <<line>> \o wrapWords_lose(Tail(words), leading, leading,
                                            Len(leading), maxWidth)

\* the loop over words[1:] of one paragraph: line is the line being built
RECURSIVE wrapWords(_, _, _, _, _)
wrapWords(words, leading, line, lineLen, maxWidth) ==
    IF words = <<>> THEN <<line>>
    ELSE LET w == Head(words)
             wLen == Len(w)
         IN IF lineLen + 1 + wLen <= maxWidth
            THEN wrapWords(Tail(words), leading, line \o <<SP>> \o w,
                           lineLen + 1 + wLen, maxWidth)
            ELSE <<line>> \o wrapWords(Tail(words), leading, leading \o w,
                                       Len(leading) + wLen, maxWidth)

\* the body of the loop over paragraphs
wrapParagraph(paragraph, maxWidth) ==
    LET trimmed == TrimLeft(paragraph)
        leading == SubSeq(paragraph, 1, Len(paragraph) - Len(trimmed))
        words == Fields(trimmed)
    IN IF trimmed = <<>> THEN <<leading>>
       ELSE IF Len(words) = 0 THEN <<leading>>
       ELSE wrapWords(Tail(words), leading, leading \o Head(words),
                      Len(leading \o Head(words)), maxWidth)

RECURSIVE wrapParagraphs(_, _)
wrapParagraphs(ps, maxWidth) ==
    IF ps = <<>> THEN <<>>
    ELSE wrapParagraph(Head(ps), maxWidth) \o wrapParagraphs(Tail(ps), maxWidth)

\* wrapText(s, maxWidth); nil is the empty sequence of lines
wrapText(s, maxWidth) ==
    IF maxWidth <= 0 THEN <<>>
    ELSE IF s = <<>> THEN << <<>> >>
    ELSE wrapParagraphs(SplitNL(s), maxWidth)

(***************************************************************************)
(* Specification SpecWrap: wrapText on every string over WrapAlphabet of   *)
(* at most MaxWrapLen runes and every width up to MaxWrapW.                *)
(***************************************************************************)
MaxWrapLen == 5
MaxWrapW == 4
WrapAlphabet == {LetterA, SP, TAB, NL}

NoWrap == [done |-> FALSE, lines |-> <<>>]

WrapInit ==
    /\ wrapS \in SeqsUpTo(WrapAlphabet, MaxWrapLen)
    /\ wrapW \in 0..MaxWrapW
    /\ wrapOut = NoWrap

WrapIdle ==
    /\ wrapS = <<>>
    /\ wrapW = 0
    /\ wrapOut = NoWrap

WrapText ==
    /\ ~wrapOut.done
    /\ wrapOut' = [done |-> TRUE, lines |-> wrapText(wrapS, wrapW)]
    /\ UNCHANGED <<wrapS, wrapW>>

(***************************************************************************)
(* node.Node and its builders (src/node/node.go)                           *)
(***************************************************************************)
NodeTypes == {"Text", "Box", "Row", "Column", "List", "Pane", "Spacer"}

NoProps ==
    [Text |-> <<>>, Width |-> 0, Height |-> 0, FlexWeight |-> 0,
     ScrollOffset |-> 0, ScrollToBottom |-> FALSE]

Text(s) == [Type |-> "Text", Props |-> [NoProps EXCEPT !.Text = s], Children |-> <<>>]
Row(children) == [Type |-> "Row", Props |-> NoProps, Children |-> children]
Column(children) == [Type |-> "Column", Props |-> NoProps, Children |-> children]
List(children) == [Type |-> "List", Props |-> NoProps, Children |-> children]
Pane(children) == [Type |-> "Pane", Props |-> NoProps, Children |-> children]
\* node.Box takes one child; a Node literal of type BoxNode can carry any number
Box(children) == [Type |-> "Box", Props |-> NoProps, Children |-> children]
Spacer == [Type |-> "Spacer", Props |-> [NoProps EXCEPT !.FlexWeight = 1], Children |-> <<>>]

WithFlex(n, weight) == [n EXCEPT !.Props.FlexWeight = weight]
WithSize(n, w, h) == [n EXCEPT !.Props.Width = w, !.Props.Height = h]
WithScrollOffset(n, offset) == [n EXCEPT !.Props.ScrollOffset = offset]
WithScrollToBottom(n) == [n EXCEPT !.Props.ScrollToBottom = TRUE]

(***************************************************************************)
(* layout.Layout (src/layout/layout.go)                                    *)
(***************************************************************************)
Rect(x, y, w, h) == [X |-> x, Y |-> y, W |-> w, H |-> h]
LayoutNode(n, rect, children) == [Node |-> n, Rect |-> rect, Children |-> children]

flexWeight(n) == n.Props.FlexWeight

RECURSIVE measureWidth(_, _)
RECURSIVE sumWidths(_, _)
sumWidths(children, avail) ==
    IF children = <<>> THEN 0
    ELSE measureWidth(Head(children), avail) + sumWidths(Tail(children), avail)

measureWidth(n, avail) ==
    IF n.Props.Width > 0 THEN n.Props.Width
    ELSE CASE n.Type = "Text" -> Len(n.Props.Text)
           [] n.Type = "Box" ->
                IF Len(n.Children) > 0
                THEN measureWidth(n.Children[1], avail) + 2
                ELSE 2
           [] n.Type = "Row" -> sumWidths(n.Children, avail)
           [] OTHER -> avail.W

RECURSIVE measureHeight(_, _)
RECURSIVE sumHeights(_, _)
sumHeights(children, avail) ==
    IF children = <<>> THEN 0
    ELSE measureHeight(Head(children), avail) + sumHeights(Tail(children), avail)

RECURSIVE maxHeights(_, _, _)
maxHeights(children, avail, h) ==
    IF children = <<>> THEN h
    ELSE LET ch == measureHeight(Head(children), avail)
         IN maxHeights(Tail(children), avail, IF ch > h THEN ch ELSE h)

measureHeight(n, avail) ==
    IF n.Props.Height > 0 THEN n.Props.Height
    ELSE CASE n.Type = "Text" -> Len(wrapText(n.Props.Text, avail.W))
           [] n.Type = "Box" ->
                IF Len(n.Children) > 0
                THEN LET w == avail.W - 2
                         innerAvail == Rect(avail.X, avail.Y, IF w < 0 THEN 0 ELSE w, avail.H)
                     IN measureHeight(n.Children[1], innerAvail) + 2
                ELSE 2
           [] n.Type \in {"Column", "List", "Pane"} -> sumHeights(n.Children, avail)
           [] n.Type = "Row" -> maxHeights(n.Children, avail, 1)
           [] OTHER -> 1

RECURSIVE shiftY(_, _)
shiftY(ln, dy) ==
    [ln EXCEPT !.Rect.Y = ln.Rect.Y + dy,
               !.Children = [i \in 1..Len(ln.Children) |-> shiftY(ln.Children[i], dy)]]

\* the first pass of layoutRow and layoutColumn: the flex weights of the flex children
RECURSIVE totalFlexOf(_)
totalFlexOf(children) ==
    IF children = <<>> THEN 0
    ELSE (IF flexWeight(Head(children)) > 0 THEN flexWeight(Head(children)) ELSE 0)
         + totalFlexOf(Tail(children))

\* the first pass of layoutRow: the measured widths of the non-flex children
RECURSIVE totalFixedW(_, _)
totalFixedW(children, avail) ==
    IF children = <<>> THEN 0
    ELSE (IF flexWeight(Head(children)) > 0 THEN 0 ELSE measureWidth(Head(children), avail))
         + totalFixedW(Tail(children), avail)

\* the first pass of layoutColumn: the measured heights of the non-flex children
RECURSIVE totalFixedH(_, _)
totalFixedH(children, avail) ==
    IF children = <<>> THEN 0
    ELSE (IF flexWeight(Head(children)) > 0 THEN 0 ELSE measureHeight(Head(children), avail))
         + totalFixedH(Tail(children), avail)

\* rowChildW without the clip to the space left in the row
rowChildW_noClip(child, avail, x, remaining, totalFlex) ==
    LET fw == flexWeight(child)
    IN IF fw > 0 /\ totalFlex > 0
       THEN (remaining * fw) \div totalFlex
       ELSE measureWidth(child, avail)

\* rowChildW with the share of a flex child rounded up
rowChildW_ceil(child, avail, x, remaining, totalFlex) ==
    LET fw == flexWeight(child)
        w0 == IF fw > 0 /\ totalFlex > 0
              THEN (remaining * fw + totalFlex - 1) \div totalFlex
              ELSE measureWidth(child, avail)
        w1 == IF w0 > avail.W - (x - avail.X) THEN avail.W - (x - avail.X) ELSE w0
    IN IF w1 < 0 THEN 0 ELSE w1

\* the width layoutRow allots to a child placed at x
rowChildW(child, avail, x, remaining, totalFlex) ==
    LET fw == flexWeight(child)
        w0 == IF fw > 0 /\ totalFlex > 0
              THEN (remaining * fw) \div totalFlex
              ELSE measureWidth(child, avail)
        w1 == IF w0 > avail.W - (x - avail.X) THEN avail.W - (x - avail.X) ELSE w0
    IN IF w1 < 0 THEN 0 ELSE w1

\* colChildH without the clamp of a child to the rows left in the viewport
colChildH_noClamp(child, avail, y, remaining, totalFlex, scrollable) ==
    LET fw == flexWeight(child)
    IN IF fw > 0 /\ totalFlex > 0
       THEN (remaining * fw) \div totalFlex
       ELSE measureHeight(child, avail)

\* the height layoutColumn allots to a child placed at y
colChildH(child, avail, y, remaining, totalFlex, scrollable) ==
    LET fw == flexWeight(child)
        h0 == IF fw > 0 /\ totalFlex > 0
              THEN (remaining * fw) \div totalFlex
              ELSE measureHeight(child, avail)
        h1 == IF h0 > avail.H - (y - avail.Y) THEN avail.H - (y - avail.Y) ELSE h0
    IN IF scrollable THEN h0
       ELSE IF h1 < 0 THEN 0 ELSE h1

RECURSIVE layout(_, _)
RECURSIVE rowPlace(_, _, _, _, _)
RECURSIVE colPlace(_, _, _, _, _, _)

\* the second pass of layoutRow, from the child that is placed at x on
rowPlace(children, avail, x, remaining, totalFlex) ==
    IF children = <<>> THEN <<>>
    ELSE LET childW == rowChildW(Head(children), avail, x, remaining, totalFlex)
             childRect == Rect(x, avail.Y, childW, avail.H)
         IN <<layout(Head(children), childRect)>>
            \o rowPlace(Tail(children), avail, x + childW, remaining, totalFlex)

\* the second pass of layoutColumn, from the child that is placed at y on
colPlace(children, avail, y, remaining, totalFlex, scrollable) ==
    IF children = <<>> THEN <<>>
    ELSE LET childH == colChildH(Head(children), avail, y, remaining, totalFlex, scrollable)
             childRect == Rect(avail.X, y, avail.W, childH)
         IN <<layout(Head(children), childRect)>>
            \o colPlace(Tail(children), avail, y + childH, remaining, totalFlex, scrollable)

\* the y the second pass of layoutColumn ends with
RECURSIVE colEndY(_, _, _, _, _, _)
colEndY(children, avail, y, remaining, totalFlex, scrollable) ==
    IF children = <<>> THEN y
    ELSE colEndY(Tail(children), avail,
                 y + colChildH(Head(children), avail, y, remaining, totalFlex, scrollable),
                 remaining, totalFlex, scrollable)

layoutText(n, avail) ==
    LET lines == wrapText(n.Props.Text, avail.W)
        h == IF Len(lines) > avail.H THEN avail.H ELSE Len(lines)
    IN LayoutNode(n, Rect(avail.X, avail.Y, avail.W, h), <<>>)

layoutRow(n, avail) ==
    IF Len(n.Children) = 0 THEN LayoutNode(n, avail, <<>>)
    ELSE LET totalFixed == totalFixedW(n.Children, avail)
             totalFlex == totalFlexOf(n.Children)
             remaining == IF avail.W - totalFixed < 0 THEN 0 ELSE avail.W - totalFixed
         IN LayoutNode(n, avail, rowPlace(n.Children, avail, avail.X, remaining, totalFlex))

\* the offset of layoutColumn if scroll_to_bottom took no account of ScrollOffset
colScrollOffset_bottom(n, avail, y) ==
    IF n.Props.ScrollToBottom
    THEN LET totalContentH == y - avail.Y
         IN IF totalContentH > avail.H THEN totalContentH - avail.H ELSE 0
    ELSE n.Props.ScrollOffset

\* the offset layoutColumn shifts its children up by; y is where the second pass ended
colScrollOffset(n, avail, y) ==
    IF n.Props.ScrollToBottom
    THEN LET totalContentH == y - avail.Y
         IN IF totalContentH > avail.H
            THEN LET autoOffset == totalContentH - avail.H
                     off == autoOffset - n.Props.ScrollOffset
                 IN IF off < 0 THEN 0 ELSE off
            ELSE 0
    ELSE n.Props.ScrollOffset

layoutColumn(n, avail) ==
    IF Len(n.Children) = 0 THEN LayoutNode(n, avail, <<>>)
    ELSE LET scrollable == n.Props.ScrollOffset > 0 \/ n.Props.ScrollToBottom
             totalFixed == totalFixedH(n.Children, avail)
             totalFlex == totalFlexOf(n.Children)
             remaining == IF avail.H - totalFixed < 0 THEN 0 ELSE avail.H - totalFixed
             placed == colPlace(n.Children, avail, avail.Y, remaining, totalFlex, scrollable)
             y == colEndY(n.Children, avail, avail.Y, remaining, totalFlex, scrollable)
             scrollOffset == colScrollOffset(n, avail, y)
         IN LayoutNode(n, avail,
                IF scrollOffset > 0
                THEN [i \in 1..Len(placed) |-> shiftY(placed[i], 0 - scrollOffset)]
                ELSE placed)

\* boxInner without the clamp at zero
boxInner_noClamp(avail) == Rect(avail.X + 1, avail.Y + 1, avail.W - 2, avail.H - 2)

\* the rect layoutBox lays its first child out in
boxInner(avail) ==
    Rect(avail.X + 1, avail.Y + 1,
         IF avail.W - 2 < 0 THEN 0 ELSE avail.W - 2,
         IF avail.H - 2 < 0 THEN 0 ELSE avail.H - 2)

\* layoutBox laying out every child of the Box in the inner rect
layoutBox_all(n, avail) ==
    LayoutNode(n, avail, [i \in 1..Len(n.Children) |-> layout(n.Children[i], boxInner(avail))])

layoutBox(n, avail) ==
    IF Len(n.Children) = 0 THEN LayoutNode(n, avail, <<>>)
    ELSE LayoutNode(n, avail, <<layout(n.Children[1], boxInner(avail))>>)

\* applySize setting the rect to the explicit size, larger or smaller
applySize_set(n, ln) ==
    [ln EXCEPT !.Rect.W = IF n.Props.Width > 0 THEN n.Props.Width ELSE ln.Rect.W,
               !.Rect.H = IF n.Props.Height > 0 THEN n.Props.Height ELSE ln.Rect.H]

\* "Apply explicit size constraints" of layout
applySize(n, ln) ==
    LET w == IF n.Props.Width > 0 /\ n.Props.Width < ln.Rect.W
             THEN n.Props.Width ELSE ln.Rect.W
        h == IF n.Props.Height > 0 /\ n.Props.Height < ln.Rect.H
             THEN n.Props.Height ELSE ln.Rect.H
    IN [ln EXCEPT !.Rect.W = w, !.Rect.H = h]

layout(n, avail) ==
    LET ln == CASE n.Type = "Text" -> layoutText(n, avail)
                [] n.Type = "Row" -> layoutRow(n, avail)
                [] n.Type \in {"Column", "List", "Pane"} -> layoutColumn(n, avail)
                [] n.Type = "Box" -> layoutBox(n, avail)
                [] OTHER -> LayoutNode(n, avail, <<>>)
    IN applySize(n, ln)

Layout(root, termW, termH) == layout(root, Rect(0, 0, termW, termH))

(***************************************************************************)
(* Specification SpecLayout: Layout on every node tree of at most MaxNodes *)
(* nodes built from the leaves and containers below, in every viewport up  *)
(* to MaxTermW x MaxTermH.                                                 *)
(***************************************************************************)
MaxNodes == 3
MaxTermW == 5
MaxTermH == 3

TextAB == <<LetterA, LetterB>>
TextWords == <<LetterA, SP, LetterA, LetterB>>

Leaves ==
    {Text(TextAB), Text(TextWords), Spacer,
     WithFlex(Text(TextAB), 2), WithSize(Text(TextWords), 3, 1)}

\* the containers over a sequence of children
Containers(kids) ==
    {Row(kids), WithSize(Row(kids), 2, 1), Column(kids), WithScrollToBottom(Pane(kids)),
     WithScrollOffset(List(kids), 1), Box(kids)}

\* the nodes of one node: leaves, and containers without children
SingleNodes == Leaves \cup Containers(<<>>)

RECURSIVE NodeCount(_)
RECURSIVE NodeCountOf(_)
NodeCountOf(children) ==
    IF children = <<>> THEN 0
    ELSE NodeCount(Head(children)) + NodeCountOf(Tail(children))
NodeCount(n) == 1 + NodeCountOf(n.Children)

\* kids with c inserted so that it becomes child number p
InsertChild(kids, p, c) == SubSeq(kids, 1, p - 1) \o <<c>> \o SubSeq(kids, p, Len(kids))

\* the trees that are n with one more node: a new child of n at any place, or one
\* child of n grown the same way (Text and Spacer take no children)
RECURSIVE Grow(_)
Grow(n) ==
    IF n.Type \in {"Text", "Spacer"} THEN {}
    ELSE {[n EXCEPT !.Children = InsertChild(n.Children, p, c)] :
              p \in 1..(Len(n.Children) + 1), c \in SingleNodes}
         \cup UNION {{[n EXCEPT !.Children[i] = g] : g \in Grow(n.Children[i])} :
                         i \in 1..Len(n.Children)}

NoLayout == [done |-> FALSE, ln |-> <<>>]

LayoutInit ==
    /\ lyTree \in SingleNodes
    /\ lyW = 0
    /\ lyH = 0
    /\ lyOut = NoLayout

\* the view builds its tree: one more node.Text, node.Row, ... under some container
BuildNode ==
    /\ ~lyOut.done
    /\ NodeCount(lyTree) < MaxNodes
    /\ lyTree' \in Grow(lyTree)
    /\ UNCHANGED <<lyW, lyH, lyOut>>

\* Layout(root, termW, termH) on the tree, in a viewport of termW x termH
DoLayout ==
    /\ ~lyOut.done
    /\ \E termW \in 0..MaxTermW, termH \in 0..MaxTermH :
          /\ lyW' = termW
          /\ lyH' = termH
          /\ lyOut' = [done |-> TRUE, ln |-> Layout(lyTree, termW, termH)]
    /\ UNCHANGED lyTree


LayoutIdle ==
    /\ lyTree = <<>>
    /\ lyW = 0
    /\ lyH = 0
    /\ lyOut = NoLayout

(***************************************************************************)
(* Specification SpecRowBox: Layout on a Column that holds a Row with a    *)
(* Box, the Box holding text, as an indented code block does               *)
(* (layout_test.go, TestRowWithBoxChildHeight), in every viewport of at    *)
(* most MaxBoxW x MaxBoxH.                                                 *)
(***************************************************************************)
MaxBoxW == 5
MaxBoxH == 5

TextAA == <<LetterA, SP, LetterA>>
Indent == Text(<<SP, SP>>)

BoxContents ==
    {Text(TextAB), Text(TextAA), Column(<<Text(TextAB), Text(TextAB)>>)}

RowBoxTrees ==
    UNION {{Column(<<Row(kids)>>), Column(<<Text(TextAB), Row(kids), Text(TextAB)>>)} :
               kids \in UNION {{<<Box(<<c>>)>>, <<Indent, Box(<<c>>)>>} : c \in BoxContents}}

RowBoxInit ==
    /\ lyTree \in RowBoxTrees
    /\ lyW = 0
    /\ lyH = 0
    /\ lyOut = NoLayout

\* Layout(root, termW, termH) on the tree, in a viewport of termW x termH
LayoutRowBox ==
    /\ ~lyOut.done
    /\ \E termW \in 0..MaxBoxW, termH \in 0..MaxBoxH :
          /\ lyW' = termW
          /\ lyH' = termH
          /\ lyOut' = [done |-> TRUE, ln |-> Layout(lyTree, termW, termH)]
    /\ UNCHANGED lyTree

(***************************************************************************)
(* Specification SpecScroll: Layout on a Column, List or Pane with         *)
(* scroll_to_bottom, a scroll offset of at most MaxScrollOffset and up to  *)
(* MaxScrollKids children, in every viewport of DoLayout.                  *)
(***************************************************************************)
MaxScrollOffset == 2
MaxScrollKids == 2

ScrollKids ==
    {Text(TextAB), Text(TextWords), WithFlex(Text(TextAB), 2), WithSize(Text(TextWords), 3, 2)}

ScrollTrees ==
    {WithScrollOffset(WithScrollToBottom(c), off) :
         c \in UNION {{Column(kids), List(kids), Pane(kids)} :
                          kids \in SeqsUpTo(ScrollKids, MaxScrollKids) \ {<<>>}},
         off \in 0..MaxScrollOffset}

ScrollInit ==
    /\ lyTree \in ScrollTrees
    /\ lyW = 0
    /\ lyH = 0
    /\ lyOut = NoLayout

(***************************************************************************)
(* Specification SpecPlace: Layout, in every viewport of DoLayout, on      *)
(* Boxes of up to MaxPlaceKids children, on nodes with an explicit size of *)
(* up to MaxSize x MaxSize, and on Columns, Lists and Panes that do not    *)
(* scroll, each as the root and inside a Box.                              *)
(***************************************************************************)
MaxPlaceKids == 2
MaxSize == 3

PlaceKids ==
    {Text(TextAB), Text(TextWords), Spacer, WithSize(Text(TextWords), 3, 2)}

PlaceSeqs == SeqsUpTo(PlaceKids, MaxPlaceKids) \ {<<>>}

BoxTrees ==
    UNION {{Box(kids), WithSize(Box(kids), 3, 2), Box(<<Box(kids)>>),
            Column(<<Text(TextAB), Box(kids)>>)} : kids \in PlaceSeqs}

SizedNodes ==
    {Text(TextAB), Text(TextWords), Spacer, Box(<<Text(TextAB)>>),
     Row(<<Text(TextAB), Spacer>>), Column(<<Text(TextWords), Text(TextAB)>>)}

SizedTrees ==
    UNION {{WithSize(n, w, h), Box(<<WithSize(n, w, h)>>)} :
               n \in SizedNodes, w \in 0..MaxSize, h \in 0..MaxSize}

StackTrees ==
    UNION {{Column(kids), List(kids), Pane(kids), Box(<<Column(kids)>>)} : kids \in PlaceSeqs}

PlaceInit ==
    /\ lyTree \in BoxTrees \cup SizedTrees \cup StackTrees
    /\ lyW = 0
    /\ lyH = 0
    /\ lyOut = NoLayout

(***************************************************************************)
(* input.WatchResize (src/input/input.go)                                  *)
(***************************************************************************)
ResizeChCap == 4
SigChCap == 4

\* the terminal is resized: the runtime delivers SIGWINCH to sigCh, and drops
\* the signal when sigCh is full
Sigwinch ==
    /\ winchLeft > 0
    /\ winchLeft' = winchLeft - 1
    /\ sigCh' = IF sigCh < SigChCap THEN sigCh + 1 ELSE sigCh
    /\ UNCHANGED <<wrPc, wrSize, resizeCh, resizeClosed>>

\* the outer select, case <-ctx.Done(): return, and the deferred close(ch)
WatcherCancelled ==
    /\ wrPc \in {"wait", "send"}
    /\ cancelled
    /\ wrPc' = "done"
    /\ resizeClosed' = TRUE
    /\ UNCHANGED <<winchLeft, sigCh, wrSize, resizeCh>>

\* the outer select, case <-sigCh: w, h := TermSize()
WatcherSignal(termSizes) ==
    /\ wrPc = "wait"
    /\ sigCh > 0
    /\ sigCh' = sigCh - 1
    /\ wrSize' \in termSizes
    /\ wrPc' = "send"
    /\ UNCHANGED <<winchLeft, resizeCh, resizeClosed>>

\* the inner select, case ch <- ResizeMsg{Width: w, Height: h}
WatcherSend ==
    /\ wrPc = "send"
    /\ Len(resizeCh) < ResizeChCap
    /\ resizeCh' = Append(resizeCh, wrSize)
    /\ wrPc' = "wait"
    /\ UNCHANGED <<winchLeft, sigCh, wrSize, resizeClosed>>

(***************************************************************************)
(* app.App.Run (src/app/app.go)                                            *)
(***************************************************************************)
\* The commands and subscriptions Update starts over a run, and the messages a
\* subscription sends through its callback.
MaxTasks == 2
MaxSubSends == 1
\* make(chan Msg, 64) in the source (app.go:127); the model scales the capacity
\* down so that MaxTasks tasks can fill the channel
CmdChCap == 1

\* The messages.  from is the type of the key a message was converted from,
\* "" for a message that was not made from a key.
NoKey == Key("")
KeyMsg(k) ==
    [kind |-> "Key", Key |-> k, Focused |-> FALSE, Delta |-> 0, Size |-> <<>>,
     task |-> 0, n |-> 0, from |-> k.Type]
FocusMsg(focused, k) ==
    [kind |-> "Focus", Key |-> NoKey, Focused |-> focused, Delta |-> 0, Size |-> <<>>,
     task |-> 0, n |-> 0, from |-> k.Type]
ScrollMsg(delta, k) ==
    [kind |-> "Scroll", Key |-> NoKey, Focused |-> FALSE, Delta |-> delta, Size |-> <<>>,
     task |-> 0, n |-> 0, from |-> k.Type]
ResizeMsg(s) ==
    [kind |-> "Resize", Key |-> NoKey, Focused |-> FALSE, Delta |-> 0, Size |-> s,
     task |-> 0, n |-> 0, from |-> ""]
\* the n-th message of the command or subscription t
TaskMsg(t, n) ==
    [kind |-> "Task", Key |-> NoKey, Focused |-> FALSE, Delta |-> 0, Size |-> <<>>,
     task |-> t, n |-> n, from |-> ""]
NoMsg ==
    [kind |-> "", Key |-> NoKey, Focused |-> FALSE, Delta |-> 0, Size |-> <<>>,
     task |-> 0, n |-> 0, from |-> ""]

\* the switch k.Type of the blocking select
selectMsg(k) ==
    CASE k.Type = "FocusIn" -> FocusMsg(TRUE, k)
      [] k.Type = "FocusOut" -> FocusMsg(FALSE, k)
      [] k.Type = "MouseScrollUp" -> ScrollMsg(3, k)
      [] k.Type = "MouseScrollDown" -> ScrollMsg(-3, k)
      [] OTHER -> KeyMsg(k)

\* the switch k.Type of the drain loop
drainMsg(k) ==
    CASE k.Type = "FocusIn" -> FocusMsg(TRUE, k)
      [] k.Type = "FocusOut" -> FocusMsg(FALSE, k)
      [] OTHER -> KeyMsg(k)

\* the calls of package ansi Run makes before the loop, and the deferred ones
Setup == <<"EnterAltScreen", "HideCursor", "EnableFocusReporting",
           "EnableMouseReporting", "ClearScreen">>
Teardown == <<"DisableMouseReporting", "DisableFocusReporting", "ShowCursor",
              "LeaveAltScreen">>

\* return r: the deferred frameTicker.Stop(), the deferred teardown, the
\* deferred cancel()
Return(r, why) ==
    /\ lpPc' = "done"
    /\ ret' = r
    /\ exitWhy' = why
    /\ out' = out \o Teardown
    /\ cancelled' = TRUE

\* the focus loop without its case input.Escape
RECURSIVE focusOps_noPop(_)
focusOps_noPop(ms) ==
    IF ms = <<>> THEN <<>>
    ELSE LET m == Head(ms)
             op == IF m.kind # "Key" THEN <<>>
                   ELSE CASE m.Key.Type = "Tab" -> <<"Next">>
                          [] m.Key.Type = "ShiftTab" -> <<"Prev">>
                          [] OTHER -> <<>>
         IN op \o focusOps_noPop(Tail(ms))

\* the loop "Handle focus keys before update" over a batch
RECURSIVE focusOps(_)
focusOps(ms) ==
    IF ms = <<>> THEN <<>>
    ELSE LET m == Head(ms)
             op == IF m.kind # "Key" THEN <<>>
                   ELSE CASE m.Key.Type = "Tab" -> <<"Next">>
                          [] m.Key.Type = "ShiftTab" -> <<"Prev">>
                          [] m.Key.Type = "Escape" -> <<"PopContext">>
                          [] OTHER -> <<>>
         IN op \o focusOps(Tail(ms))

\* a message was collected by the blocking select: on to the drain loop
Collected(m) ==
    /\ msgs' = Append(msgs, m)
    /\ needsRender' = TRUE
    /\ lpPc' = "drain"

\* case <-ctx.Done(): return ctx.Err()
LoopSelectCtx ==
    /\ lpPc = "select"
    /\ cancelled
    /\ Return("ctxErr", "ctx")
    /\ UNCHANGED <<keyCh, resizeCh, cmdCh, dims, prevBuf, needsRender, msgs, upI,
                   fmOps, lastUpdate, updated, cmdSent, ticked, tasks, ctxCancelled>>

\* case k, ok := <-keyCh
LoopSelectKey ==
    /\ lpPc = "select"
    /\ \/ /\ keyCh = <<>> /\ keyClosed
          /\ Return("nil", "keyClosed")
          /\ UNCHANGED <<keyCh, msgs, needsRender>>
       \/ /\ keyCh # <<>> /\ Head(keyCh).Type = "CtrlC"
          /\ keyCh' = Tail(keyCh)
          /\ Return("nil", "ctrlC")
          /\ UNCHANGED <<msgs, needsRender>>
       \/ /\ keyCh # <<>> /\ Head(keyCh).Type # "CtrlC"
          /\ keyCh' = Tail(keyCh)
          /\ Collected(selectMsg(Head(keyCh)))
          /\ UNCHANGED <<ret, exitWhy, out, cancelled>>
    /\ UNCHANGED <<resizeCh, cmdCh, dims, prevBuf, upI, fmOps, lastUpdate, updated, cmdSent, ticked, tasks,
                   ctxCancelled>>

\* case r, ok := <-resizeCh without "prevBuf = nil"
LoopSelectResize_keepPrev ==
    /\ lpPc = "select"
    /\ \/ /\ resizeCh = <<>> /\ resizeClosed
          /\ UNCHANGED <<resizeCh, dims, prevBuf, msgs, needsRender, lpPc>>
       \/ /\ resizeCh # <<>>
          /\ resizeCh' = Tail(resizeCh)
          /\ dims' = Head(resizeCh)
          /\ prevBuf' = prevBuf
          /\ Collected(ResizeMsg(Head(resizeCh)))
    /\ UNCHANGED <<keyCh, cmdCh, upI, fmOps, lastUpdate, updated, cmdSent, ticked, tasks,
                   ctxCancelled, ret, exitWhy, out, cancelled>>

\* case r, ok := <-resizeCh
LoopSelectResize ==
    /\ lpPc = "select"
    /\ \/ /\ resizeCh = <<>> /\ resizeClosed
          /\ UNCHANGED <<resizeCh, dims, prevBuf, msgs, needsRender, lpPc>>
       \/ /\ resizeCh # <<>>
          /\ resizeCh' = Tail(resizeCh)
          /\ dims' = Head(resizeCh)
          /\ prevBuf' = <<>>
          /\ Collected(ResizeMsg(Head(resizeCh)))
    /\ UNCHANGED <<keyCh, cmdCh, upI, fmOps, lastUpdate, updated, cmdSent, ticked, tasks, ctxCancelled,
                   ret, exitWhy, out, cancelled>>

\* case cmdMsg := <-cmdCh without the append to msgs
LoopSelectCmd_drop ==
    /\ lpPc = "select"
    /\ cmdCh # <<>>
    /\ cmdCh' = Tail(cmdCh)
    /\ needsRender' = TRUE
    /\ lpPc' = "drain"
    /\ UNCHANGED <<keyCh, resizeCh, dims, prevBuf, upI, fmOps, lastUpdate, updated, cmdSent,
                   ticked, tasks, ctxCancelled, ret, exitWhy, out, cancelled, msgs>>

\* case cmdMsg := <-cmdCh
LoopSelectCmd ==
    /\ lpPc = "select"
    /\ cmdCh # <<>>
    /\ cmdCh' = Tail(cmdCh)
    /\ Collected(Head(cmdCh))
    /\ UNCHANGED <<keyCh, resizeCh, dims, prevBuf, upI, fmOps, lastUpdate, updated, cmdSent, ticked, tasks,
                   ctxCancelled, ret, exitWhy, out, cancelled>>

\* case <-frameTicker.C: the ticker runs until Run returns, so a tick is there
\* or on its way whenever the loop waits
LoopSelectTick ==
    /\ lpPc = "select"
    /\ lpPc' = "drain"
    /\ ticked' = TRUE
    /\ UNCHANGED <<keyCh, resizeCh, cmdCh, dims, prevBuf, needsRender, msgs, upI, fmOps,
                   lastUpdate, updated, cmdSent, tasks, ctxCancelled, ret, exitWhy, out, cancelled>>

\* the drain loop's key case without its test for input.CtrlC
LoopDrainKey_noCtrlC ==
    /\ lpPc = "drain"
    /\ keyCh # <<>>
    /\ keyCh' = Tail(keyCh)
    /\ msgs' = Append(msgs, drainMsg(Head(keyCh)))
    /\ needsRender' = TRUE
    /\ UNCHANGED <<lpPc, ret, exitWhy, out, cancelled>>
    /\ UNCHANGED <<resizeCh, cmdCh, dims, prevBuf, upI, fmOps, lastUpdate, updated, cmdSent,
                   ticked, tasks, ctxCancelled>>

\* the drain loop, case k, ok := <-keyCh with a key
LoopDrainKey ==
    /\ lpPc = "drain"
    /\ keyCh # <<>>
    /\ keyCh' = Tail(keyCh)
    /\ IF Head(keyCh).Type = "CtrlC"
       THEN /\ Return("nil", "ctrlC")
            /\ UNCHANGED <<msgs, needsRender>>
       ELSE /\ msgs' = Append(msgs, drainMsg(Head(keyCh)))
            /\ needsRender' = TRUE
            /\ UNCHANGED <<lpPc, ret, exitWhy, out, cancelled>>
    /\ UNCHANGED <<resizeCh, cmdCh, dims, prevBuf, upI, fmOps, lastUpdate, updated, cmdSent, ticked, tasks,
                   ctxCancelled>>

\* the drain loop's command case putting the message in front of the batch
LoopDrainCmd_prepend ==
    /\ lpPc = "drain"
    /\ cmdCh # <<>>
    /\ cmdCh' = Tail(cmdCh)
    /\ msgs' = <<Head(cmdCh)>> \o msgs
    /\ needsRender' = TRUE
    /\ UNCHANGED <<keyCh, resizeCh, dims, prevBuf, upI, fmOps, lastUpdate, updated, cmdSent,
                   ticked, tasks, ctxCancelled, lpPc, ret, exitWhy, out, cancelled>>

\* the drain loop, case cmdMsg := <-cmdCh
LoopDrainCmd ==
    /\ lpPc = "drain"
    /\ cmdCh # <<>>
    /\ cmdCh' = Tail(cmdCh)
    /\ msgs' = Append(msgs, Head(cmdCh))
    /\ needsRender' = TRUE
    /\ UNCHANGED <<keyCh, resizeCh, dims, prevBuf, upI, fmOps, lastUpdate, updated, cmdSent, ticked, tasks,
                   ctxCancelled, lpPc, ret, exitWhy, out, cancelled>>

\* the drain loop ends (keyCh is closed, or default), then "if !needsRender
\* { continue }" and the focus keys of the batch
LoopDrainEnd ==
    /\ lpPc = "drain"
    /\ \/ keyCh = <<>> /\ keyClosed
       \/ keyCh = <<>> /\ ~keyClosed /\ cmdCh = <<>>
    /\ IF ~needsRender
       THEN /\ lpPc' = "select"
            /\ UNCHANGED <<fmOps, upI>>
       ELSE /\ fmOps' = fmOps \o focusOps(msgs)
            /\ upI' = 1
            /\ lpPc' = IF msgs = <<>> THEN "render" ELSE "update"
    /\ UNCHANGED <<keyCh, resizeCh, cmdCh, dims, prevBuf, needsRender, msgs,
                   lastUpdate, updated, cmdSent, ticked, tasks, ctxCancelled, ret, exitWhy, out, cancelled>>

NoTask == [kind |-> "", pc |-> "idle", n |-> 0]
idleTasks(ts) == {t \in DOMAIN ts : ts[t].pc = "idle"}
\* the nc goroutines of result.Cmds and the ns of result.Subs are started
RECURSIVE launch(_, _, _)
launch(ts, nc, ns) ==
    IF nc + ns = 0 THEN ts
    ELSE LET t == CHOOSE i \in idleTasks(ts) : \A j \in idleTasks(ts) : i <= j
         IN IF nc > 0
            THEN launch([ts EXCEPT ![t] = [kind |-> "cmd", pc |-> "run", n |-> 0]],
                        nc - 1, ns)
            ELSE launch([ts EXCEPT ![t] = [kind |-> "sub", pc |-> "run", n |-> 0]],
                        nc, ns - 1)

\* one turn of the update loop that starts result.Cmds and result.Subs before it
\* tests the model for nil
LoopUpdate_nilLaunches ==
    /\ lpPc = "update"
    /\ lastUpdate' = msgs[upI]
    /\ updated' = Append(updated, msgs[upI])
    /\ \E nc \in 0..Cardinality(idleTasks(tasks)) :
       \E ns \in 0..(Cardinality(idleTasks(tasks)) - nc) :
           tasks' = launch(tasks, nc, ns)
    /\ \/ /\ Return("nil", "nilModel")
          /\ UNCHANGED upI
       \/ /\ upI' = upI + 1
          /\ lpPc' = IF upI = Len(msgs) THEN "render" ELSE "update"
          /\ UNCHANGED <<ret, exitWhy, out, cancelled>>
    /\ UNCHANGED <<keyCh, resizeCh, cmdCh, dims, prevBuf, needsRender, msgs, fmOps,
                   ctxCancelled, cmdSent, ticked>>

\* one turn of "for _, msg := range msgs": a.Update(model, msg), which returns
\* any model and any commands and subscriptions
LoopUpdate ==
    /\ lpPc = "update"
    /\ lastUpdate' = msgs[upI]
    /\ updated' = Append(updated, msgs[upI])
    /\ \/ /\ Return("nil", "nilModel")
          /\ UNCHANGED <<tasks, upI>>
       \/ /\ \E nc \in 0..Cardinality(idleTasks(tasks)) :
             \E ns \in 0..(Cardinality(idleTasks(tasks)) - nc) :
                 tasks' = launch(tasks, nc, ns)
          /\ upI' = upI + 1
          /\ lpPc' = IF upI = Len(msgs) THEN "render" ELSE "update"
          /\ UNCHANGED <<ret, exitWhy, out, cancelled>>
    /\ UNCHANGED <<keyCh, resizeCh, cmdCh, dims, prevBuf, needsRender, msgs, fmOps,
                   ctxCancelled, cmdSent, ticked>>

\* the end of a pass of the loop if it left the batch as it is
LoopRender_keepMsgs ==
    /\ lpPc = "render"
    /\ msgs' = msgs
    /\ upI' = 1
    /\ out' = IF out[Len(out)] = "Render" THEN out ELSE Append(out, "Render")
    /\ prevBuf' = dims
    /\ needsRender' = FALSE
    /\ lpPc' = "select"
    /\ lastUpdate' = NoMsg
    /\ ticked' = FALSE
    /\ UNCHANGED <<keyCh, resizeCh, cmdCh, dims, fmOps, tasks, ctxCancelled, ret, exitWhy,
                   cancelled, updated, cmdSent>>

\* msgs = msgs[:0] and the render pipeline; successive frames are one entry
\* of out
LoopRender ==
    /\ lpPc = "render"
    /\ msgs' = <<>>
    /\ upI' = 1
    /\ out' = IF out[Len(out)] = "Render" THEN out ELSE Append(out, "Render")
    /\ prevBuf' = dims
    /\ needsRender' = FALSE
    /\ lpPc' = "select"
    /\ lastUpdate' = NoMsg
    /\ ticked' = FALSE
    /\ UNCHANGED <<keyCh, resizeCh, cmdCh, dims, fmOps, tasks, ctxCancelled, ret, exitWhy,
                   cancelled, updated, cmdSent>>

\* the context given to Run is cancelled
AppCtxCancel ==
    /\ ~cancelled
    /\ ctxCancelled' = TRUE
    /\ cancelled' = TRUE

\* the goroutine of a command runs c(), the one of a subscription runs s(send)
\* up to its next call of send or to its return
TaskRun(t) ==
    /\ tasks[t].pc = "run"
    /\ \/ /\ tasks[t].kind = "sub"
          /\ tasks[t].n < MaxSubSends
          /\ tasks' = [tasks EXCEPT ![t].pc = "send"]
       \/ \E nonNil \in BOOLEAN :
             tasks' = [tasks EXCEPT ![t].pc = IF nonNil THEN "sendLast" ELSE "done"]

\* the goroutine of a command or subscription if it called a.Update with its
\* message itself instead of sending it on cmdCh
TaskSend_callsUpdate(t) ==
    /\ tasks[t].pc \in {"send", "sendLast"}
    /\ tasks' = [tasks EXCEPT ![t].pc = "inUpdate"]
    /\ UNCHANGED <<cmdCh, cmdSent>>

\* cmdCh <- m, and cmdCh <- msg of the send callback
TaskSend(t) ==
    /\ tasks[t].pc \in {"send", "sendLast"}
    /\ Len(cmdCh) < CmdChCap
    /\ cmdCh' = Append(cmdCh, TaskMsg(t, tasks[t].n + 1))
    /\ cmdSent' = Append(cmdSent, TaskMsg(t, tasks[t].n + 1))
    /\ tasks' = [tasks EXCEPT ![t].n = @ + 1,
                              ![t].pc = IF @ = "send" THEN "run" ELSE "done"]

\* a.Update(model, msg) is called: one turn of "for _, msg := range msgs" up to
\* the call
UpdateCall ==
    /\ lpPc = "update"
    /\ lpPc' = "inUpdate"
    /\ lastUpdate' = msgs[upI]
    /\ updated' = Append(updated, msgs[upI])
    /\ UNCHANGED <<keyCh, resizeCh, cmdCh, dims, prevBuf, needsRender, msgs, upI, fmOps,
                   tasks, ctxCancelled, ret, exitWhy, out, cancelled, cmdSent, ticked>>

\* a.Update returns any model and any commands and subscriptions: the rest of
\* the turn
UpdateReturn ==
    /\ lpPc = "inUpdate"
    /\ \/ /\ Return("nil", "nilModel")
          /\ UNCHANGED <<tasks, upI>>
       \/ /\ \E nc \in 0..Cardinality(idleTasks(tasks)) :
             \E ns \in 0..(Cardinality(idleTasks(tasks)) - nc) :
                 tasks' = launch(tasks, nc, ns)
          /\ upI' = upI + 1
          /\ lpPc' = IF upI = Len(msgs) THEN "render" ELSE "update"
          /\ UNCHANGED <<ret, exitWhy, out, cancelled>>
    /\ UNCHANGED <<keyCh, resizeCh, cmdCh, dims, prevBuf, needsRender, msgs, fmOps,
                   ctxCancelled, lastUpdate, updated, cmdSent, ticked>>

\* msgs = msgs[:0], and a.View(model, fm.Current()) is called
ViewCall ==
    /\ lpPc = "render"
    /\ lpPc' = "inView"
    /\ msgs' = <<>>
    /\ UNCHANGED <<keyCh, resizeCh, cmdCh, dims, prevBuf, needsRender, upI, fmOps, tasks,
                   ctxCancelled, ret, exitWhy, out, cancelled, lastUpdate, updated, cmdSent,
                   ticked>>

\* a.View returns the tree: the rest of the render pipeline
ViewReturn ==
    /\ lpPc = "inView"
    /\ upI' = 1
    /\ out' = IF out[Len(out)] = "Render" THEN out ELSE Append(out, "Render")
    /\ prevBuf' = dims
    /\ needsRender' = FALSE
    /\ lpPc' = "select"
    /\ lastUpdate' = NoMsg
    /\ ticked' = FALSE
    /\ UNCHANGED <<keyCh, resizeCh, cmdCh, dims, fmOps, tasks, ctxCancelled, ret, exitWhy,
                   cancelled, updated, cmdSent, msgs>>

\* A panic in the goroutine of Run (a.Update or a.View panics): the deferred calls
\* of Run are run, the teardown and cancel() among them, and the process exits
\* with the panic; Run does not return.
Panic(why) ==
    /\ lpPc' = "panicked"
    /\ exitWhy' = why
    /\ out' = out \o Teardown
    /\ cancelled' = TRUE

\* a.Update(model, msg) panics
LoopUpdatePanic ==
    /\ lpPc = "update"
    /\ lastUpdate' = msgs[upI]
    /\ updated' = Append(updated, msgs[upI])
    /\ Panic("updatePanic")
    /\ UNCHANGED <<keyCh, resizeCh, cmdCh, dims, prevBuf, needsRender, msgs, upI, fmOps,
                   ctxCancelled, ret, tasks, cmdSent, ticked>>

\* a.View(model, fm.Current()) panics
LoopViewPanic ==
    /\ lpPc = "render"
    /\ Panic("viewPanic")
    /\ UNCHANGED <<keyCh, resizeCh, cmdCh, dims, prevBuf, needsRender, msgs, upI, fmOps,
                   ctxCancelled, ret, tasks, lastUpdate, updated,
                   cmdSent, ticked>>

\* c() or s(send) panics in its own goroutine, which has no deferred recover: the
\* process exits with the panic at once, and the deferred calls of Run, which
\* belong to another goroutine, are not run
TaskPanic(t) ==
    /\ tasks[t].pc = "run"
    /\ lpPc \notin {"done", "panicked"}
    /\ tasks' = [tasks EXCEPT ![t].pc = "panicked"]
    /\ lpPc' = "crashed"
    /\ exitWhy' = "taskPanic"

\* the process has not exited with a panic
Alive == lpPc \notin {"panicked", "crashed"}

(***************************************************************************)
(* Specification SpecApp: Run on a terminal that delivers one of the       *)
(* AppTtys and is resized at most MaxWinch times, with an Update that may  *)
(* return a nil model, commands and subscriptions at every call, and a     *)
(* context that may be cancelled at any moment.                            *)
(***************************************************************************)
MaxAppReads == 2
MaxWinch == 1

DefaultSize == <<80, 24>>
TermSizes == {DefaultSize, <<40, 12>>}

FocusInBytes == <<ESC, LBRACKET, 73>>
ScrollUpBytes == <<ESC, LBRACKET, 60, 54, 52, 59, 49, 59, 49, 77>>
AppChunks == {<<LetterA>>, <<TAB>>, <<3>>, <<ESC>>, FocusInBytes, ScrollUpBytes}

AppTtys ==
    {Reads(c, f) : c \in SeqsUpTo(AppChunks, MaxAppReads), f \in BOOLEAN}
    \cup {Reads(Flood, FALSE)}

\* What the terminal and the application do over a run: the reads of the
\* terminal, the number of resizes, the number of commands and subscriptions
\* Update may start.  A run has keys, or resizes, or commands.
AppRuns ==
    {[tty |-> t, winch |-> 0, tasks |-> 0] : t \in AppTtys}
    \cup {[tty |-> Reads(c, FALSE), winch |-> MaxWinch, tasks |-> 0] :
              c \in {<<>>, <<<<LetterA>>>>}}
    \cup {[tty |-> Reads(<<<<LetterA>>>>, f), winch |-> 0, tasks |-> MaxTasks] :
              f \in BOOLEAN}

AppStart ==
    /\ sigCh = 0
    /\ wrPc = "wait"
    /\ wrSize = <<>>
    /\ resizeCh = <<>>
    /\ resizeClosed = FALSE
    /\ ctxCancelled = FALSE
    /\ lpPc = "select"
    /\ ret = ""
    /\ exitWhy = ""
    /\ out = Setup
    /\ dims = DefaultSize
    /\ prevBuf = <<>>
    /\ needsRender = TRUE
    /\ msgs = <<>>
    /\ upI = 1
    /\ fmOps = <<>>
    /\ lastUpdate = NoMsg
    /\ updated = <<>>
    /\ cmdSent = <<>>
    /\ ticked = FALSE
    /\ cmdCh = <<>>

AppInit ==
    /\ \E run \in AppRuns :
          /\ tty = run.tty
          /\ winchLeft = run.winch
          /\ tasks = [t \in 1..run.tasks |-> NoTask]
    /\ stream = ReadBytes(tty)
    /\ reads0 = tty
    /\ KeysStart
    /\ AppStart

AppIdle ==
    /\ AppStart
    /\ winchLeft = 0
    /\ tasks = <<>>

notLoop == <<readerVars, psPc, psPending, psAfter, psWhy, pasteBuf, keyClosed, emitted,
             timedOut, winchLeft, sigCh, wrPc, wrSize, resizeClosed, pureVars>>
notApp == pureVars

AppNext ==
    \/ Alive /\ ReaderRead /\ UNCHANGED <<parserVars, cancelled, notKeys>>
    \/ Alive /\ ReaderSendData /\ UNCHANGED <<parserVars, cancelled, notKeys>>
    \/ Alive /\ ReaderSendErr /\ UNCHANGED <<parserVars, cancelled, notKeys>>
    \/ Alive /\ ParserRecv /\ UNCHANGED <<readerOnly, cancelled, notKeys>>
    \/ Alive /\ ParserSend /\ UNCHANGED <<readerOnly, cancelled, notKeys>>
    \/ Alive /\ ParserCancelled /\ UNCHANGED <<readerOnly, cancelled, notKeys>>
    \/ Alive /\ ParserEscRecv /\ UNCHANGED <<readerOnly, cancelled, notKeys>>
    \/ Alive /\ ParserEscTimeout /\ UNCHANGED <<readerOnly, cancelled, notKeys>>
    \/ Alive /\ Sigwinch /\ UNCHANGED <<keysVars, loopVars, notApp>>
    \/ Alive /\ WatcherCancelled /\ UNCHANGED <<keysVars, loopVars, notApp>>
    \/ Alive /\ WatcherSignal(TermSizes) /\ UNCHANGED <<keysVars, loopVars, notApp>>
    \/ Alive /\ WatcherSend /\ UNCHANGED <<keysVars, loopVars, notApp>>
    \/ Alive /\ AppCtxCancel
         /\ UNCHANGED <<readerVars, parserVars, watchVars, lpPc, ret, exitWhy, out, dims,
                        prevBuf, needsRender, msgs, upI, fmOps, lastUpdate, updated, cmdSent, ticked, cmdCh,
                        tasks, notApp>>
    \/ Alive /\ LoopSelectCtx /\ UNCHANGED notLoop
    \/ Alive /\ LoopSelectKey /\ UNCHANGED notLoop
    \/ Alive /\ LoopSelectResize /\ UNCHANGED notLoop
    \/ Alive /\ LoopSelectCmd /\ UNCHANGED notLoop
    \/ Alive /\ LoopSelectTick /\ UNCHANGED notLoop
    \/ Alive /\ LoopDrainKey /\ UNCHANGED notLoop
    \/ Alive /\ LoopDrainCmd /\ UNCHANGED notLoop
    \/ Alive /\ LoopDrainEnd /\ UNCHANGED notLoop
    \/ Alive /\ LoopUpdate /\ UNCHANGED notLoop
    \/ Alive /\ LoopRender /\ UNCHANGED notLoop
    \/ \E t \in DOMAIN tasks :
         Alive /\ TaskRun(t)
         /\ UNCHANGED <<keysVars, watchVars, ctxCancelled, lpPc, ret, exitWhy, out, dims,
                        prevBuf, needsRender, msgs, upI, fmOps, lastUpdate, updated, cmdSent, ticked, cmdCh,
                        notApp>>
    \/ \E t \in DOMAIN tasks :
         Alive /\ TaskSend(t)
         /\ UNCHANGED <<keysVars, watchVars, ctxCancelled, lpPc, ret, exitWhy, out, dims,
                        prevBuf, needsRender, msgs, upI, fmOps, lastUpdate, updated, ticked, notApp>>
    \/ LoopUpdatePanic /\ UNCHANGED notLoop
    \/ LoopViewPanic /\ UNCHANGED notLoop
    \/ \E t \in DOMAIN tasks :
         Alive /\ TaskPanic(t)
         /\ UNCHANGED <<keysVars, watchVars, ctxCancelled, ret, out, dims, prevBuf,
                        needsRender, msgs, upI, fmOps, lastUpdate, updated, cmdSent, ticked, cmdCh, notApp>>

(***************************************************************************)
(* Specification SpecLoop: Run on short runs that mix the sources of the   *)
(* event loop: a few key reads, or one key read with a resize and the      *)
(* commands and subscriptions Update starts.  The actions are those of     *)
(* SpecApp.                                                                *)
(***************************************************************************)
MaxLoopReads == 2
MaxLoopTasks == 1

ShiftTabBytes == <<ESC, LBRACKET, 90>>
\* Tab, Ctrl-C and Escape, one per read
LoopChunks == {<<TAB>>, <<3>>, <<ESC>>}

\* A run has key reads only, or a Shift-Tab and then a read that fails, or one key read, one
\* resize and one command or subscription, or one key read and MaxLoopTasks
\* commands and subscriptions.
LoopRuns ==
    {[tty |-> Reads(c, FALSE), winch |-> 0, tasks |-> 0] :
         c \in SeqsUpTo(LoopChunks, MaxLoopReads) \ {<<>>}}
    \cup {[tty |-> Reads(<<ShiftTabBytes>>, TRUE), winch |-> 0, tasks |-> 0]}
    \cup {[tty |-> Reads(<<<<TAB>>>>, FALSE), winch |-> 1, tasks |-> 1]}
    \cup {[tty |-> Reads(<<<<LetterA>>>>, FALSE), winch |-> 0, tasks |-> MaxLoopTasks]}

LoopInit ==
    /\ \E run \in LoopRuns :
          /\ tty = run.tty
          /\ winchLeft = run.winch
          /\ tasks = [t \in 1..run.tasks |-> NoTask]
    /\ stream = ReadBytes(tty)
    /\ reads0 = tty
    /\ KeysStart
    /\ AppStart

(***************************************************************************)
(* Specification SpecLoopFair: Run with commands and subscriptions that do *)
(* not panic and a context nobody cancels from outside, under the fairness *)
(* the Go runtime gives.  A goroutine that can send on cmdCh is scheduled; *)
(* the event loop, a goroutine too, goes on with its drain, its update     *)
(* loop and its frame; and since select picks among its ready cases at     *)
(* random, a message that waits in cmdCh each time the loop comes back to  *)
(* its blocking select is received there after finitely many rounds.       *)
(***************************************************************************)
\* the goroutines Update may start over a run
FairTasks == 1..2

FairRuns ==
    {[tty |-> Reads(<<<<ESC>>, <<LetterA>>>>, TRUE), winch |-> 0, tasks |-> 0],
     [tty |-> Reads(<<>>, FALSE), winch |-> 1, tasks |-> 0],
     [tty |-> Reads(<<<<LetterA>>>>, FALSE), winch |-> 0, tasks |-> Cardinality(FairTasks)]}

FairInit ==
    /\ \E run \in FairRuns :
          /\ tty = run.tty
          /\ winchLeft = run.winch
          /\ tasks = [t \in 1..run.tasks |-> NoTask]
    /\ stream = ReadBytes(tty)
    /\ reads0 = tty
    /\ KeysStart
    /\ AppStart

\* the send of the goroutine t on cmdCh, as a step of Run's program
TaskSendStep(t) ==
    /\ t \in DOMAIN tasks
    /\ Alive /\ TaskSend(t)
    /\ UNCHANGED <<keysVars, watchVars, ctxCancelled, lpPc, ret, exitWhy, out, dims,
                   prevBuf, needsRender, msgs, upI, fmOps, lastUpdate, updated, ticked,
                   notApp>>

\* The steps of Run when neither Update, View, a command nor a subscription
\* panics and nobody outside Run cancels the context: those of AppNext but the
\* panics, the cancellation, and the select's case <-ctx.Done(), which is then
\* never ready before Run has returned.
FairNext ==
    \/ Alive /\ ReaderRead /\ UNCHANGED <<parserVars, cancelled, notKeys>>
    \/ Alive /\ ReaderSendData /\ UNCHANGED <<parserVars, cancelled, notKeys>>
    \/ Alive /\ ReaderSendErr /\ UNCHANGED <<parserVars, cancelled, notKeys>>
    \/ Alive /\ ParserRecv /\ UNCHANGED <<readerOnly, cancelled, notKeys>>
    \/ Alive /\ ParserSend /\ UNCHANGED <<readerOnly, cancelled, notKeys>>
    \/ Alive /\ ParserCancelled /\ UNCHANGED <<readerOnly, cancelled, notKeys>>
    \/ Alive /\ ParserEscRecv /\ UNCHANGED <<readerOnly, cancelled, notKeys>>
    \/ Alive /\ ParserEscTimeout /\ UNCHANGED <<readerOnly, cancelled, notKeys>>
    \/ Alive /\ Sigwinch /\ UNCHANGED <<keysVars, loopVars, notApp>>
    \/ Alive /\ WatcherCancelled /\ UNCHANGED <<keysVars, loopVars, notApp>>
    \/ Alive /\ WatcherSignal(TermSizes) /\ UNCHANGED <<keysVars, loopVars, notApp>>
    \/ Alive /\ WatcherSend /\ UNCHANGED <<keysVars, loopVars, notApp>>
    \/ Alive /\ LoopSelectKey /\ UNCHANGED notLoop
    \/ Alive /\ LoopSelectResize /\ UNCHANGED notLoop
    \/ Alive /\ LoopSelectCmd /\ UNCHANGED notLoop
    \/ Alive /\ LoopSelectTick /\ UNCHANGED notLoop
    \/ Alive /\ LoopDrainKey /\ UNCHANGED notLoop
    \/ Alive /\ LoopDrainCmd /\ UNCHANGED notLoop
    \/ Alive /\ LoopDrainEnd /\ UNCHANGED notLoop
    \/ Alive /\ LoopUpdate /\ UNCHANGED notLoop
    \/ Alive /\ LoopRender /\ UNCHANGED notLoop
    \/ \E t \in DOMAIN tasks :
         Alive /\ TaskRun(t)
         /\ UNCHANGED <<keysVars, watchVars, ctxCancelled, lpPc, ret, exitWhy, out, dims,
                        prevBuf, needsRender, msgs, upI, fmOps, lastUpdate, updated, cmdSent, ticked, cmdCh,
                        notApp>>
    \/ \E t \in DOMAIN tasks :
         Alive /\ TaskSend(t)
         /\ UNCHANGED <<keysVars, watchVars, ctxCancelled, lpPc, ret, exitWhy, out, dims,
                        prevBuf, needsRender, msgs, upI, fmOps, lastUpdate, updated, ticked, notApp>>

LoopFairness ==
    /\ \A t \in FairTasks : WF_vars(TaskSendStep(t))
    /\ SF_vars(Alive /\ LoopSelectCmd /\ UNCHANGED notLoop)
    /\ WF_vars(Alive /\ LoopDrainCmd /\ UNCHANGED notLoop)
    /\ WF_vars(Alive /\ LoopDrainEnd /\ UNCHANGED notLoop)
    /\ WF_vars(Alive /\ LoopUpdate /\ UNCHANGED notLoop)
    /\ WF_vars(Alive /\ LoopRender /\ UNCHANGED notLoop)

(***************************************************************************)
(* Specification SpecCalls: the runs of SpecLoopFair with the calls of     *)
(* a.Update and a.View taking time: each is a step that makes the call and *)
(* a step at which it returns, and the goroutines of the commands and      *)
(* subscriptions, the reader, the parser and the watcher run in between.   *)
(***************************************************************************)
CallsNext ==
    \/ Alive /\ ReaderRead /\ UNCHANGED <<parserVars, cancelled, notKeys>>
    \/ Alive /\ ReaderSendData /\ UNCHANGED <<parserVars, cancelled, notKeys>>
    \/ Alive /\ ReaderSendErr /\ UNCHANGED <<parserVars, cancelled, notKeys>>
    \/ Alive /\ ParserRecv /\ UNCHANGED <<readerOnly, cancelled, notKeys>>
    \/ Alive /\ ParserSend /\ UNCHANGED <<readerOnly, cancelled, notKeys>>
    \/ Alive /\ ParserCancelled /\ UNCHANGED <<readerOnly, cancelled, notKeys>>
    \/ Alive /\ ParserEscRecv /\ UNCHANGED <<readerOnly, cancelled, notKeys>>
    \/ Alive /\ ParserEscTimeout /\ UNCHANGED <<readerOnly, cancelled, notKeys>>
    \/ Alive /\ Sigwinch /\ UNCHANGED <<keysVars, loopVars, notApp>>
    \/ Alive /\ WatcherCancelled /\ UNCHANGED <<keysVars, loopVars, notApp>>
    \/ Alive /\ WatcherSignal(TermSizes) /\ UNCHANGED <<keysVars, loopVars, notApp>>
    \/ Alive /\ WatcherSend /\ UNCHANGED <<keysVars, loopVars, notApp>>
    \/ Alive /\ LoopSelectKey /\ UNCHANGED notLoop
    \/ Alive /\ LoopSelectResize /\ UNCHANGED notLoop
    \/ Alive /\ LoopSelectCmd /\ UNCHANGED notLoop
    \/ Alive /\ LoopSelectTick /\ UNCHANGED notLoop
    \/ Alive /\ LoopDrainKey /\ UNCHANGED notLoop
    \/ Alive /\ LoopDrainCmd /\ UNCHANGED notLoop
    \/ Alive /\ LoopDrainEnd /\ UNCHANGED notLoop
    \/ Alive /\ UpdateCall /\ UNCHANGED notLoop
    \/ Alive /\ UpdateReturn /\ UNCHANGED notLoop
    \/ Alive /\ ViewCall /\ UNCHANGED notLoop
    \/ Alive /\ ViewReturn /\ UNCHANGED notLoop
    \/ \E t \in DOMAIN tasks :
         Alive /\ TaskRun(t)
         /\ UNCHANGED <<keysVars, watchVars, ctxCancelled, lpPc, ret, exitWhy, out, dims,
                        prevBuf, needsRender, msgs, upI, fmOps, lastUpdate, updated, cmdSent, ticked, cmdCh,
                        notApp>>
    \/ \E t \in DOMAIN tasks :
         Alive /\ TaskSend(t)
         /\ UNCHANGED <<keysVars, watchVars, ctxCancelled, lpPc, ret, exitWhy, out, dims,
                        prevBuf, needsRender, msgs, upI, fmOps, lastUpdate, updated, ticked, notApp>>

(***************************************************************************)
(* Cells, buffers and the diff of two buffers.  Packages cell and diff are *)
(* not among the sources at hand; they are modelled from the documented    *)
(* behaviour: a Cell is (rune, fg, bg, style), the default cell is a space *)
(* with no attributes, and Diff returns, row by row, every maximal         *)
(* horizontal run of cells of the new buffer that differ from the old one. *)
(***************************************************************************)
Bold == 1
Dim == 2
Italic == 4
Underline == 8
Reverse == 16

Cell(r, fg, bg, style) == [Rune |-> r, FG |-> fg, BG |-> bg, Style |-> style]
DefaultCell == Cell(SP, 0, 0, 0)

\* a buffer is its rows top to bottom, a row its cells left to right
NewBuffer(w, h, c) == [y \in 1..h |-> [x \in 1..w |-> c]]
BufW(b) == Len(b[1])
BufH(b) == Len(b)

Change(x, y, cells) == [X |-> x, Y |-> y, Cells |-> cells]

\* the changes of row y from column x on; run is the change in progress, <<>> if none
RECURSIVE diffRow(_, _, _, _, _)
diffRow(old, new, y, x, run) ==
    LET closed == IF run = <<>> THEN <<>> ELSE <<Change(x - Len(run), y, run)>>
    IN IF x >= Len(new) THEN closed
       ELSE IF At(new, x) # At(old, x)
            THEN diffRow(old, new, y, x + 1, Append(run, At(new, x)))
            ELSE closed \o diffRow(old, new, y, x + 1, <<>>)

RECURSIVE diffRows(_, _, _)
diffRows(old, new, y) ==
    IF y >= Len(new) THEN <<>>
    ELSE diffRow(At(old, y), At(new, y), y, 0, <<>>) \o diffRows(old, new, y + 1)

Diff(old, new) == diffRows(old, new, 0)

(***************************************************************************)
(* ansi.Render (src/unnamed/part_000).  What Render writes is modelled as  *)
(* the sequence of the control sequences and glyphs written, each with its *)
(* numeric parameters as they appear between ESC [ and the final byte:     *)
(*   ESC [ r ; c H   is  CUP(r, c)                                         *)
(*   ESC [ p1 ; ... ; pn m   is  SGR(<<p1, ..., pn>>)                      *)
(*   a rune written with %c   is  Glyph(r)                                 *)
(***************************************************************************)
CUP(row, col) == [op |-> "CUP", args |-> <<row, col>>]
SGR(params) == [op |-> "SGR", args |-> params]
Glyph(r) == [op |-> "Glyph", args |-> <<r>>]

\* style & flag != 0
hasFlag(style, flag) == (style \div flag) % 2 = 1

\* the sequence writeSGR writes, without the reset it begins with
writeSGR_noReset(fg, bg, style) ==
    SGR((IF hasFlag(style, Bold) THEN <<1>> ELSE <<>>)
        \o (IF hasFlag(style, Dim) THEN <<2>> ELSE <<>>)
        \o (IF hasFlag(style, Italic) THEN <<3>> ELSE <<>>)
        \o (IF hasFlag(style, Underline) THEN <<4>> ELSE <<>>)
        \o (IF hasFlag(style, Reverse) THEN <<7>> ELSE <<>>)
        \o (IF fg # 0 THEN <<38, 5, fg>> ELSE <<>>)
        \o (IF bg # 0 THEN <<48, 5, bg>> ELSE <<>>))

writeSGR(fg, bg, style) ==
    SGR(<<0>>
        \o (IF hasFlag(style, Bold) THEN <<1>> ELSE <<>>)
        \o (IF hasFlag(style, Dim) THEN <<2>> ELSE <<>>)
        \o (IF hasFlag(style, Italic) THEN <<3>> ELSE <<>>)
        \o (IF hasFlag(style, Underline) THEN <<4>> ELSE <<>>)
        \o (IF hasFlag(style, Reverse) THEN <<7>> ELSE <<>>)
        \o (IF fg # 0 THEN <<38, 5, fg>> ELSE <<>>)
        \o (IF bg # 0 THEN <<48, 5, bg>> ELSE <<>>))

\* the inner loop of Render over the cells of one change; st is
\* [first, curFG, curBG, curStyle], the result [out, st]
RECURSIVE renderCells(_, _)
renderCells(cells, st) ==
    IF cells = <<>> THEN [out |-> <<>>, st |-> st]
    ELSE LET c == Head(cells)
             sgr == st.first \/ c.FG # st.curFG \/ c.BG # st.curBG
                    \/ c.Style # st.curStyle
             st1 == IF sgr THEN [first |-> FALSE, curFG |-> c.FG, curBG |-> c.BG,
                                 curStyle |-> c.Style]
                    ELSE st
             rest == renderCells(Tail(cells), st1)
         IN [out |-> (IF sgr THEN <<writeSGR(c.FG, c.BG, c.Style)>> ELSE <<>>)
                     \o <<Glyph(c.Rune)>> \o rest.out,
             st |-> rest.st]

\* the outer loop of Render if it forgot the colours and style at every change
RECURSIVE renderChanges_perChange(_, _)
renderChanges_perChange(changes, st) ==
    IF changes = <<>> THEN IF ~st.first THEN <<SGR(<<0>>)>> ELSE <<>>
    ELSE LET ch == Head(changes)
             run == renderCells(ch.Cells, [st EXCEPT !.curFG = 0, !.curBG = 0, !.curStyle = 0])
         IN <<CUP(ch.Y + 1, ch.X + 1)>> \o run.out
            \o renderChanges_perChange(Tail(changes), run.st)

\* the outer loop of Render, and the reset at the end
RECURSIVE renderChanges(_, _)
renderChanges(changes, st) ==
    IF changes = <<>> THEN IF ~st.first THEN <<SGR(<<0>>)>> ELSE <<>>
    ELSE LET ch == Head(changes)
             run == renderCells(ch.Cells, st)
         IN <<CUP(ch.Y + 1, ch.X + 1)>> \o run.out \o renderChanges(Tail(changes), run.st)

Render(changes) ==
    renderChanges(changes, [first |-> TRUE, curFG |-> 0, curBG |-> 0, curStyle |-> 0])

(***************************************************************************)
(* Specification SpecRender: two buffers of the same size start filled     *)
(* with one cell, up to MaxPaints cells of either are painted, and then    *)
(* the diff from the previous to the new one is rendered.                  *)
(***************************************************************************)
MaxBufW == 2
MaxPaints == 2
BufHeights == {1, 2}

\* a plain glyph, bold on a colour whose number is an SGR code of its own, a
\* background only, and two flags together
CellAlphabet ==
    {DefaultCell, Cell(LetterA, 5, 0, Bold), Cell(LetterA, 0, 7, 0),
     Cell(LetterB, 5, 0, Bold + Underline)}
Fills == {DefaultCell, Cell(LetterA, 5, 0, Bold)}

NoFrame == [done |-> FALSE, changes |-> <<>>, out |-> <<>>]

RenderInit ==
    /\ \E w \in 1..MaxBufW, h \in BufHeights, c \in Fills :
          /\ bufPrev = NewBuffer(w, h, c)
          /\ bufNext = NewBuffer(w, h, c)
    /\ paints = 0
    /\ frame = NoFrame

RenderIdle ==
    /\ bufPrev = <<>>
    /\ bufNext = <<>>
    /\ paints = 0
    /\ frame = NoFrame

\* buffer b with the cell at column x of row y (0-based) set to c
SetCell(b, x, y, c) == [b EXCEPT ![y + 1][x + 1] = c]

PaintPrev ==
    /\ ~frame.done
    /\ paints < MaxPaints
    /\ \E y \in 0..(BufH(bufPrev) - 1), x \in 0..(BufW(bufPrev) - 1), c \in CellAlphabet :
          /\ c # At(At(bufPrev, y), x)
          /\ bufPrev' = SetCell(bufPrev, x, y, c)
    /\ paints' = paints + 1
    /\ UNCHANGED <<bufNext, frame>>

PaintNext ==
    /\ ~frame.done
    /\ paints < MaxPaints
    /\ \E y \in 0..(BufH(bufNext) - 1), x \in 0..(BufW(bufNext) - 1), c \in CellAlphabet :
          /\ c # At(At(bufNext, y), x)
          /\ bufNext' = SetCell(bufNext, x, y, c)
    /\ paints' = paints + 1
    /\ UNCHANGED <<bufPrev, frame>>

RenderFrame ==
    /\ ~frame.done
    /\ frame' = [done |-> TRUE, changes |-> Diff(bufPrev, bufNext),
                 out |-> Render(Diff(bufPrev, bufNext))]
    /\ UNCHANGED <<bufPrev, bufNext, paints>>

(***************************************************************************)
(* Specification SpecParse: parseInput applied to the byte sequences made  *)
(* of at most MaxFragments of the fragments below.                         *)
(***************************************************************************)
MaxFragments == 3

\* ESC, the CSI introducer, the paste markers, the start of an SGR mouse report, a
\* final byte, a letter, CR, a bracket, the UTF-8 leaders of 2, 3 and 4 bytes, and
\* a continuation byte
Fragments ==
    {<<ESC>>, <<ESC, LBRACKET>>, pasteStart, pasteEnd, <<60, 54, 52, 59>>, <<77>>,
     <<LetterA>>, <<CR>>, <<LBRACKET>>, <<195>>, <<226>>, <<240>>, <<169>>}

\* the concatenations of at most n fragments
RECURSIVE FragmentSeqs(_)
FragmentSeqs(n) ==
    IF n = 0 THEN {<<>>}
    ELSE LET shorter == FragmentSeqs(n - 1)
         IN shorter \cup {s \o f : s \in shorter, f \in Fragments}

NoParse == [done |-> FALSE, keys |-> <<>>]

ParseInit ==
    /\ piData \in FragmentSeqs(MaxFragments)
    /\ piRows = <<>>
    /\ piOut = NoParse

ParseIdle ==
    /\ piData = <<>>
    /\ piRows = <<>>
    /\ piOut = NoParse

ParseInput ==
    /\ ~piOut.done
    /\ piOut' = [done |-> TRUE, keys |-> parseInput(piData)]
    /\ UNCHANGED <<piData, piRows>>

(***************************************************************************)
(* Specification SpecTable: parseInput applied to the bytes of at most     *)
(* MaxRows rows of the byte-to-key table, one after the other.             *)
(***************************************************************************)
MaxRows == 2

TableRow(bytes, type) == [bytes |-> bytes, key |-> type]
CSIRow(bytes, type) == TableRow(<<ESC, LBRACKET>> \o bytes, type)

\* the rows of the table, the mouse reports with the buttons 64, 65, 0 and 35:
\* SGR reports ESC [ < btn ; x ; y M or m, legacy reports ESC [ M btn+32 x+32 y+32
TableRows ==
    {TableRow(<<CR>>, "Enter"), TableRow(<<NL>>, "ShiftEnter"), TableRow(<<TAB>>, "Tab"),
     TableRow(<<127>>, "Backspace"), TableRow(<<8>>, "Backspace"),
     TableRow(<<3>>, "CtrlC"), TableRow(<<4>>, "CtrlD"), TableRow(<<26>>, "CtrlZ"),
     TableRow(<<ESC, CR>>, "ShiftEnter"), TableRow(<<ESC, NL>>, "ShiftEnter"),
     CSIRow(<<65>>, "Up"), CSIRow(<<66>>, "Down"), CSIRow(<<67>>, "Right"),
     CSIRow(<<68>>, "Left"), CSIRow(<<72>>, "Home"), CSIRow(<<70>>, "End"),
     CSIRow(<<90>>, "ShiftTab"), CSIRow(<<73>>, "FocusIn"), CSIRow(<<79>>, "FocusOut"),
     CSIRow(<<51, TILDE>>, "Delete"), CSIRow(<<53, TILDE>>, "PageUp"),
     CSIRow(<<54, TILDE>>, "PageDown"),
     CSIRow(<<49, 59, 51, 65>>, "AltUp"), CSIRow(<<49, 59, 51, 66>>, "AltDown"),
     CSIRow(<<49, 59, 51, 67>>, "AltRight"), CSIRow(<<49, 59, 51, 68>>, "AltLeft"),
     CSIRow(<<49, 51, 59, 50, 117>>, "ShiftEnter"),
     CSIRow(<<60, 54, 52, 59, 49, 59, 49, 77>>, "MouseScrollUp"),
     CSIRow(<<60, 54, 53, 59, 49, 59, 49, 77>>, "MouseScrollDown"),
     CSIRow(<<60, 48, 59, 49, 48, 59, 53, 77>>, "MouseClick"),
     CSIRow(<<60, 48, 59, 49, 48, 59, 53, 109>>, "MouseClick"),
     CSIRow(<<60, 51, 53, 59, 49, 59, 49, 77>>, "MouseClick"),
     CSIRow(<<77, 96, 33, 33>>, "MouseScrollUp"),
     CSIRow(<<77, 97, 33, 33>>, "MouseScrollDown"),
     CSIRow(<<77, 32, 77, 126>>, "MouseClick"),
     CSIRow(<<77, 67, 65, 126>>, "MouseClick")}

\* the bytes of the rows, one after the other
RECURSIVE BytesOf(_)
BytesOf(rows) == IF rows = <<>> THEN <<>> ELSE Head(rows).bytes \o BytesOf(Tail(rows))

TableInit ==
    /\ piRows \in SeqsUpTo(TableRows, MaxRows)
    /\ piData = BytesOf(piRows)
    /\ piOut = NoParse

(***************************************************************************)
(* component.TextInput: a value and a cursor, a rune offset into the       *)
(* value.  A Go string is modelled as the sequence of its characters, each *)
(* a code point or BadByte, a byte that is part of no valid UTF-8          *)
(* encoding; a []rune as a sequence of integers.                           *)
(***************************************************************************)
BadByte == 0 - 1
RuneError == 65533

\* []rune(s): every byte that decodes to nothing becomes U+FFFD
Runes(s) == [i \in 1..Len(s) |-> IF s[i] = BadByte THEN RuneError ELSE s[i]]

\* string(runes): every rune that is no Unicode scalar value is encoded as U+FFFD
String(runes) ==
    [i \in 1..Len(runes) |->
        IF runes[i] < 0 \/ runes[i] > 1114111 \/ runes[i] \in 55296..57343
        THEN RuneError ELSE runes[i]]

\* unicode.IsLetter and unicode.IsDigit, on the runes up to U+007F and U+FFFD
IsLetter(r) == r \in 65..90 \/ r \in 97..122
IsDigit(r) == r \in 48..57

NewTextInput(placeholder) ==
    [Value |-> <<>>, Cursor |-> 0, Placeholder |-> placeholder, Focused |-> TRUE]

\* the loop of cursorPosition from index i on
RECURSIVE cursorPositionFrom(_, _, _, _, _)
cursorPositionFrom(runes, cursor, i, line, col) ==
    IF i < cursor /\ i < Len(runes)
    THEN IF runes[i + 1] = NL
         THEN cursorPositionFrom(runes, cursor, i + 1, line + 1, 0)
         ELSE cursorPositionFrom(runes, cursor, i + 1, line, col + 1)
    ELSE <<line, col>>

cursorPosition(runes, cursor) == cursorPositionFrom(runes, cursor, 0, 0, 0)

\* the loop of lineStart from index i down
RECURSIVE lineStartFrom(_, _)
lineStartFrom(runes, i) ==
    IF i >= 0
    THEN IF runes[i + 1] = NL THEN i + 1 ELSE lineStartFrom(runes, i - 1)
    ELSE 0

lineStart(runes, cursor) == lineStartFrom(runes, cursor - 1)

\* the loop of lineEnd from index i up
RECURSIVE lineEndFrom(_, _)
lineEndFrom(runes, i) ==
    IF i < Len(runes)
    THEN IF runes[i + 1] = NL THEN i ELSE lineEndFrom(runes, i + 1)
    ELSE Len(runes)

lineEnd(runes, cursor) == lineEndFrom(runes, cursor)

moveCursorUp(runes, cursor) ==
    LET col == cursorPosition(runes, cursor)[2]
        start == lineStart(runes, cursor)
    IN  IF start = 0 THEN 0
        ELSE LET prevLineEnd == start - 1
                 prevLineStart == lineStart(runes, prevLineEnd)
                 prevLineLen == prevLineEnd - prevLineStart
             IN  prevLineStart + (IF col > prevLineLen THEN prevLineLen ELSE col)

\* moveCursorDown without the clamp of col to the length of the next line
moveCursorDown_noClamp(runes, cursor) ==
    LET col == cursorPosition(runes, cursor)[2]
        end == lineEnd(runes, cursor)
    IN  IF end >= Len(runes) THEN Len(runes)
        ELSE end + 1 + col

moveCursorDown(runes, cursor) ==
    LET col == cursorPosition(runes, cursor)[2]
        end == lineEnd(runes, cursor)
    IN  IF end >= Len(runes) THEN Len(runes)
        ELSE LET nextLineStart == end + 1
                 nextLineEnd == lineEnd(runes, nextLineStart)
                 nextLineLen == nextLineEnd - nextLineStart
             IN  nextLineStart + (IF col > nextLineLen THEN nextLineLen ELSE col)

\* the first loop of wordLeft: skip whitespace and punctuation backward
RECURSIVE wordLeftSkip(_, _)
wordLeftSkip(runes, i) ==
    IF i > 0 /\ ~IsLetter(runes[i + 1]) /\ ~IsDigit(runes[i + 1])
    THEN wordLeftSkip(runes, i - 1) ELSE i

\* the second loop of wordLeft: skip word characters backward
RECURSIVE wordLeftWord(_, _)
wordLeftWord(runes, i) ==
    IF i > 0 /\ (IsLetter(runes[i]) \/ IsDigit(runes[i]))
    THEN wordLeftWord(runes, i - 1) ELSE i

wordLeft(runes, cursor) ==
    IF cursor <= 0 THEN 0
    ELSE wordLeftWord(runes, wordLeftSkip(runes, cursor - 1))

\* the first loop of wordRight: skip the current word's characters forward
RECURSIVE wordRightWord(_, _)
wordRightWord(runes, i) ==
    IF i < Len(runes) /\ (IsLetter(runes[i + 1]) \/ IsDigit(runes[i + 1]))
    THEN wordRightWord(runes, i + 1) ELSE i

\* the second loop of wordRight: skip whitespace and punctuation forward
RECURSIVE wordRightSkip(_, _)
wordRightSkip(runes, i) ==
    IF i < Len(runes) /\ ~IsLetter(runes[i + 1]) /\ ~IsDigit(runes[i + 1])
    THEN wordRightSkip(runes, i + 1) ELSE i

wordRight(runes, cursor) ==
    IF cursor >= Len(runes) THEN Len(runes)
    ELSE wordRightSkip(runes, wordRightWord(runes, cursor))

\* runes with r inserted at the cursor
InsertAt(runes, cursor, r) ==
    Slice(runes, 0, cursor) \o <<r>> \o SliceFrom(runes, cursor)

\* ti.Update(key)
Update(ti, key) ==
    LET runes == Runes(ti.Value)
        c == ti.Cursor
        res ==
            CASE key.Type = "RuneKey" -> <<InsertAt(runes, c, key.Rune), c + 1>>
              [] key.Type = "ShiftEnter" -> <<InsertAt(runes, c, NL), c + 1>>
              [] key.Type = "Backspace" ->
                    IF c > 0
                    THEN <<Slice(runes, 0, c - 1) \o SliceFrom(runes, c), c - 1>>
                    ELSE <<runes, c>>
              [] key.Type = "Delete" ->
                    IF c < Len(runes)
                    THEN <<Slice(runes, 0, c) \o SliceFrom(runes, c + 1), c>>
                    ELSE <<runes, c>>
              [] key.Type = "Left" -> <<runes, IF c > 0 THEN c - 1 ELSE c>>
              [] key.Type = "Right" -> <<runes, IF c < Len(runes) THEN c + 1 ELSE c>>
              [] key.Type = "Home" -> <<runes, lineStart(runes, c)>>
              [] key.Type = "End" -> <<runes, lineEnd(runes, c)>>
              [] key.Type = "Up" -> <<runes, moveCursorUp(runes, c)>>
              [] key.Type = "Down" -> <<runes, moveCursorDown(runes, c)>>
              [] key.Type = "AltLeft" -> <<runes, wordLeft(runes, c)>>
              [] key.Type = "AltRight" -> <<runes, wordRight(runes, c)>>
              [] OTHER -> <<runes, c>>
    IN  [ti EXCEPT !.Value = String(res[1]), !.Cursor = res[2]]

\* ti.Paste(text)
Paste(ti, text) ==
    LET runes == Runes(ti.Value)
        pasteRunes == Runes(text)
        newRunes ==
            Slice(runes, 0, ti.Cursor) \o pasteRunes \o SliceFrom(runes, ti.Cursor)
    IN  [ti EXCEPT !.Value = String(newRunes), !.Cursor = ti.Cursor + Len(pasteRunes)]

\* the TextInput that ti.Submit() returns
Submit(ti) == [ti EXCEPT !.Value = <<>>, !.Cursor = 0]

(***************************************************************************)
(* Specification SpecText: a program that holds one TextInput made by      *)
(* NewTextInput and replaces it by what Update, Paste and Submit return.   *)
(* The value is kept to MaxValueLen runes: an operation that would make it *)
(* longer is not drawn.                                                    *)
(***************************************************************************)
MaxValueLen == 4
MaxPasted == 2

\* the key types Update has a case for, and three it has none for
TextKeyTypes ==
    {"RuneKey", "ShiftEnter", "Backspace", "Delete", "Left", "Right", "Home", "End", "Up",
     "Down", "AltLeft", "AltRight", "Enter", "Paste", "MouseClick"}

\* the runes a RuneKey carries: a letter, a space, and the surrogate half U+D800
TextRunes == {LetterA, SP, 55296}

\* the characters of a pasted text
PasteChars == {LetterA, NL, BadByte}

TextKeys ==
    {RuneKeyOf(r) : r \in TextRunes}
        \cup {Key(kt) : kt \in TextKeyTypes \ {"RuneKey", "Paste"}}
        \cup {PasteKey(<<LetterA>>)}

TextInit ==
    /\ textInput = NewTextInput(<<>>)
    /\ tiLast = <<"NewTextInput">>

TextIdle ==
    /\ textInput = NewTextInput(<<>>)
    /\ tiLast = <<>>

DoUpdate ==
    \E key \in TextKeys :
        /\ Len(textInput.Value) < MaxValueLen \/ key.Type \notin {"RuneKey", "ShiftEnter"}
        /\ textInput' = Update(textInput, key)
        /\ tiLast' = <<"Update", key.Type>>

DoPaste ==
    \E text \in SeqsUpTo(PasteChars, MaxPasted) :
        /\ Len(textInput.Value) + Len(text) <= MaxValueLen
        /\ textInput' = Paste(textInput, text)
        /\ tiLast' = <<"Paste">>

DoSubmit ==
    /\ textInput' = Submit(textInput)
    /\ tiLast' = <<"Submit">>

(***************************************************************************)
(* The specifications                                                      *)
(***************************************************************************)
InitWrap == WrapInit /\ LayoutIdle /\ KeysIdle /\ AppIdle /\ RenderIdle /\ ParseIdle /\ TextIdle
SpecWrap ==
    InitWrap /\ [][WrapText /\ UNCHANGED <<layoutVars, keysVars, appVars, textVars, renderVars,
                                           parseVars>>]_vars

LayoutNext ==
    \/ BuildNode /\ UNCHANGED <<wrapVars, keysVars, appVars, textVars, renderVars, parseVars>>
    \/ DoLayout /\ UNCHANGED <<wrapVars, keysVars, appVars, textVars, renderVars, parseVars>>

InitLayout == LayoutInit /\ WrapIdle /\ KeysIdle /\ AppIdle /\ RenderIdle /\ ParseIdle /\ TextIdle
SpecLayout == InitLayout /\ [][LayoutNext]_vars

InitRowBox == RowBoxInit /\ WrapIdle /\ KeysIdle /\ AppIdle /\ RenderIdle /\ ParseIdle /\ TextIdle
SpecRowBox ==
    InitRowBox /\ [][LayoutRowBox /\ UNCHANGED <<wrapVars, keysVars, appVars, textVars, renderVars,
                                                  parseVars>>]_vars

InitScroll == ScrollInit /\ WrapIdle /\ KeysIdle /\ AppIdle /\ RenderIdle /\ ParseIdle /\ TextIdle
SpecScroll ==
    InitScroll /\ [][DoLayout /\ UNCHANGED <<wrapVars, keysVars, appVars, textVars, renderVars,
                                              parseVars>>]_vars

InitPlace == PlaceInit /\ WrapIdle /\ KeysIdle /\ AppIdle /\ RenderIdle /\ ParseIdle /\ TextIdle
SpecPlace ==
    InitPlace /\ [][DoLayout /\ UNCHANGED <<wrapVars, keysVars, appVars, textVars, renderVars,
                                             parseVars>>]_vars

InitTable == TableInit /\ WrapIdle /\ LayoutIdle /\ KeysIdle /\ AppIdle /\ RenderIdle /\ TextIdle
SpecTable ==
    InitTable /\ [][ParseInput /\ UNCHANGED <<wrapVars, layoutVars, keysVars, appVars, textVars,
                                              renderVars>>]_vars

InitKeys == KeysInit /\ WrapIdle /\ LayoutIdle /\ AppIdle /\ RenderIdle /\ ParseIdle /\ TextIdle
SpecKeys == InitKeys /\ [][KeysNext]_vars

InitEsc == EscInit /\ WrapIdle /\ LayoutIdle /\ AppIdle /\ RenderIdle /\ ParseIdle /\ TextIdle
SpecEsc == InitEsc /\ [][KeysNext]_vars

\* a step of the parser goroutine
ParserStep ==
    \/ ParserRecv /\ UNCHANGED <<readerOnly, cancelled, notKeys>>
    \/ ParserSend /\ UNCHANGED <<readerOnly, cancelled, notKeys>>
    \/ ParserCancelled /\ UNCHANGED <<readerOnly, cancelled, notKeys>>
    \/ ParserEscRecv /\ UNCHANGED <<readerOnly, cancelled, notKeys>>
    \/ ParserEscTimeout /\ UNCHANGED <<readerOnly, cancelled, notKeys>>

InitWait == WaitInit /\ WrapIdle /\ LayoutIdle /\ AppIdle /\ RenderIdle /\ ParseIdle /\ TextIdle
SpecEscFair == InitWait /\ [][KeysNext]_vars /\ WF_vars(ParserStep)

InitApp == AppInit /\ WrapIdle /\ LayoutIdle /\ RenderIdle /\ ParseIdle /\ TextIdle
SpecApp == InitApp /\ [][AppNext]_vars

InitLoop == LoopInit /\ WrapIdle /\ LayoutIdle /\ RenderIdle /\ ParseIdle /\ TextIdle
SpecLoop == InitLoop /\ [][AppNext]_vars

InitLoopFair == FairInit /\ WrapIdle /\ LayoutIdle /\ RenderIdle /\ ParseIdle /\ TextIdle
SpecLoopFair == InitLoopFair /\ [][FairNext]_vars /\ LoopFairness

InitCalls == FairInit /\ WrapIdle /\ LayoutIdle /\ RenderIdle /\ ParseIdle /\ TextIdle
SpecCalls == InitCalls /\ [][CallsNext]_vars

RenderNext ==
    \/ PaintPrev /\ UNCHANGED <<wrapVars, layoutVars, keysVars, appVars, textVars, parseVars>>
    \/ PaintNext /\ UNCHANGED <<wrapVars, layoutVars, keysVars, appVars, textVars, parseVars>>
    \/ RenderFrame /\ UNCHANGED <<wrapVars, layoutVars, keysVars, appVars, textVars, parseVars>>

InitRender == RenderInit /\ WrapIdle /\ LayoutIdle /\ KeysIdle /\ AppIdle /\ ParseIdle /\ TextIdle
SpecRender == InitRender /\ [][RenderNext]_vars

InitParse == ParseInit /\ WrapIdle /\ LayoutIdle /\ KeysIdle /\ AppIdle /\ RenderIdle /\ TextIdle
SpecParse ==
    InitParse /\ [][ParseInput /\ UNCHANGED <<wrapVars, layoutVars, keysVars, appVars, textVars,
                                              renderVars>>]_vars

InitText ==
    TextInit /\ WrapIdle /\ LayoutIdle /\ KeysIdle /\ AppIdle /\ RenderIdle /\ ParseIdle

TextNext ==
    \/ DoUpdate /\ UNCHANGED <<wrapVars, layoutVars, keysVars, appVars, renderVars, parseVars>>
    \/ DoPaste /\ UNCHANGED <<wrapVars, layoutVars, keysVars, appVars, renderVars, parseVars>>
    \/ DoSubmit /\ UNCHANGED <<wrapVars, layoutVars, keysVars, appVars, renderVars, parseVars>>

SpecText == InitText /\ [][TextNext]_vars

(***************************************************************************)
(* Claims about ReadKeys (SpecKeys)                                        *)
(***************************************************************************)
\* every read was delivered and parsed, and the parser waits for more
KeysQuiet ==
    /\ tty = <<>> /\ rdPc = "read" /\ rawCh = <<>>
    /\ psPc = "recv" /\ pasteBuf = NilPaste /\ ~cancelled

IsPrefix(a, b) == Len(a) <= Len(b) /\ a = SubSeq(b, 1, Len(a))

\* a stream holds a well-formed paste: a start marker and an end marker after it
HasPaste(s) ==
    /\ indexBytes(s, pasteStart) >= 0
    /\ indexBytes(SliceFrom(s, indexBytes(s, pasteStart) + Len(pasteStart)), pasteEnd) >= 0
\* the bytes between the two markers
PasteInner(s) ==
    LET rest == SliceFrom(s, indexBytes(s, pasteStart) + Len(pasteStart))
    IN Slice(rest, 0, indexBytes(rest, pasteEnd))
Pastes(keys) == SelectSeq(keys, LAMBDA k : k.Type = "Paste")

\* C1: for a byte stream that contains a well-formed bracketed paste, in one read
\* or split across reads at any byte position (the ESC wait never timing out),
\* ReadKeys emits exactly one Paste event, whose Text is the inner bytes: never
\* another Paste, and that Paste once every read is parsed.
C1_OnePastePerPaste ==
    (HasPaste(stream) /\ ~timedOut) =>
        /\ Pastes(emitted) \in {<<>>, <<PasteKey(PasteInner(stream))>>}
        /\ KeysQuiet => Pastes(emitted) = <<PasteKey(PasteInner(stream))>>

HasUnknownCSI(s) == indexBytes(s, UnknownCSI) >= 0
\* the stream without its unrecognized CSI sequence
WithoutCSI(s) ==
    LET at == indexBytes(s, UnknownCSI)
    IN Slice(s, 0, at) \o SliceFrom(s, at + Len(UnknownCSI))

\* C2: a CSI sequence that matches no rule of the key table produces no key event
\* at all, complete in one read or split across reads (the ESC wait never timing
\* out): the keys emitted are those of the stream without the sequence, so no
\* Escape and no RuneKey for its bytes, and parsing resumes after its final byte.
C2_UnknownCSISilent ==
    (HasUnknownCSI(stream) /\ ~timedOut) =>
        /\ IsPrefix(emitted, parseInput(WithoutCSI(stream)))
        /\ KeysQuiet => emitted = parseInput(WithoutCSI(stream))

(***************************************************************************)
(* Claims about App.Run (SpecApp)                                          *)
(***************************************************************************)
\* the message made from a key of type m.from is the one the rule gives
ConvertedByRule(m) ==
    CASE m.from = "" -> TRUE
      [] m.from = "FocusIn" -> m.kind = "Focus" /\ m.Focused
      [] m.from = "FocusOut" -> m.kind = "Focus" /\ ~m.Focused
      [] m.from = "MouseScrollUp" -> m.kind = "Scroll" /\ m.Delta = 3
      [] m.from = "MouseScrollDown" -> m.kind = "Scroll" /\ m.Delta = 0 - 3
      [] OTHER -> m.kind = "Key" /\ m.Key.Type = m.from

\* C3: every key event the loop receives is converted by the same rule before
\* update sees it, in the blocking wait and in the drain alike: update is never
\* called with a message that is not the rule's, in particular never with a
\* KeyMsg whose key type is MouseScrollUp, MouseScrollDown, FocusIn or FocusOut.
C3_UpdateSeesConverted == ConvertedByRule(lastUpdate)

\* C4: when the context passed to Run is cancelled while the loop is running (and
\* nothing else ends the loop: no Ctrl-C, no nil model, no read error), Run
\* returns ctx.Err(), never nil.
C4_CancelReturnsCtxErr ==
    (/\ lpPc = "done" /\ ctxCancelled
     /\ exitWhy \notin {"ctrlC", "nilModel"} /\ psWhy # "readErr")
        => ret = "ctxErr"

\* C5: when a read from the input reader returns an error and that ends the loop,
\* Run returns the error, not success.
C5_ReadErrorReturned ==
    (lpPc = "done" /\ exitWhy = "keyClosed" /\ psWhy = "readErr") => ret # "nil"

\* the reader is at a send on the full rawCh and the parser, the only receiver,
\* has returned
ReaderStuck ==
    /\ rdPc \in {"sendData", "sendErr"}
    /\ Len(rawCh) = RawChCap
    /\ psPc = "done"

\* C6: after the cancellation token fires, none of the three input tasks can
\* remain blocked forever on a channel send.  The sends of the parser and of the
\* resize watcher have a case <-ctx.Done() beside them; the reader's have none.
C6_InputTasksNeverStuck == cancelled => ~ReaderStuck

\* C7: after the event loop has exited, no command or subscription task stays
\* blocked forever delivering a message: none is at a send on the full cmdCh,
\* which nothing receives from any more.
C7_NoTaskStuckAfterExit ==
    lpPc = "done" =>
        \A t \in DOMAIN tasks :
            ~(tasks[t].pc \in {"send", "sendLast"} /\ Len(cmdCh) = CmdChCap)

(***************************************************************************)
(* Claims about wrapText (SpecWrap)                                        *)
(***************************************************************************)
\* a line that consists of a single word longer than w (indented or not)
IsLongWordLine(line, w) == Len(Fields(line)) = 1 /\ Len(Fields(line)[1]) > w

\* C10: wrapText(s, w) with w > 0 returns no line longer than w runes, except a
\* line that consists of a single word that is itself longer than w -- for every
\* input, paragraphs with leading whitespace and whitespace-only paragraphs included.
C10_WrapConservative ==
    (wrapOut.done /\ wrapW > 0) =>
        \A i \in 1..Len(wrapOut.lines) :
            \/ Len(wrapOut.lines[i]) <= wrapW
            \/ IsLongWordLine(wrapOut.lines[i], wrapW)

(***************************************************************************)
(* Claims about Layout (SpecLayout)                                        *)
(***************************************************************************)
RECURSIVE AllLayoutNodes(_)
AllLayoutNodes(ln) ==
    {ln} \cup UNION {AllLayoutNodes(ln.Children[i]) : i \in 1..Len(ln.Children)}

RECURSIVE SumRectW(_)
SumRectW(lns) == IF lns = <<>> THEN 0 ELSE Head(lns).Rect.W + SumRectW(Tail(lns))

\* C8: for every node tree and every viewport of non-negative width and height,
\* every LayoutNode of the result of Layout has rect width >= 0 and height >= 0.
C8_RectsNonNegative ==
    lyOut.done =>
        \A ln \in AllLayoutNodes(lyOut.ln) : ln.Rect.W >= 0 /\ ln.Rect.H >= 0

\* C8's case: a Box that is an over-wide fixed child of a Row, clipped to a rect
\* narrower than 2, whose inset leaves its child a width of 0
C8_Witness ==
    /\ lyOut.done
    /\ \E row \in AllLayoutNodes(lyOut.ln) :
         /\ row.Node.Type = "Row"
         /\ \E i \in 1..Len(row.Children) :
              LET box == row.Children[i]
              IN /\ box.Node.Type = "Box"
                 /\ measureWidth(box.Node, row.Rect) > row.Rect.W
                 /\ box.Rect.W < 2
                 /\ Len(box.Children) = 1
                 /\ box.Children[1].Rect.W = 0

\* C9 as claimed: for any Row LayoutNode produced by Layout, the sum of its
\* children's rect widths is at most the Row's own rect width.
C9_RowChildrenFit ==
    lyOut.done =>
        \A row \in AllLayoutNodes(lyOut.ln) :
            row.Node.Type = "Row" => SumRectW(row.Children) <= row.Rect.W

\* C9 as amended: the sum of a Row's children's rect widths is at most the Row's
\* own rect width for every Row that has no explicit width (Props.Width = 0), and
\* at most the width the Row was laid out in for the root Row in any case; a Row
\* whose explicit width is smaller than its allocation is shrunk after its
\* children were placed, and its children keep the widths of the allocation.
C9_RowChildrenFitAlloc ==
    lyOut.done =>
        /\ \A row \in AllLayoutNodes(lyOut.ln) :
              (row.Node.Type = "Row" /\ row.Node.Props.Width = 0)
                  => SumRectW(row.Children) <= row.Rect.W
        /\ lyOut.ln.Node.Type = "Row" => SumRectW(lyOut.ln.Children) <= lyW

\* C9's case: a Row without explicit width whose fixed children are wider than
\* the Row, so that the clip to the space left decides their widths
C9_Witness ==
    /\ lyOut.done
    /\ \E row \in AllLayoutNodes(lyOut.ln) :
         /\ row.Node.Type = "Row"
         /\ row.Node.Props.Width = 0
         /\ Len(row.Children) >= 2
         /\ sumWidths(row.Node.Children, row.Rect) > row.Rect.W
         /\ SumRectW(row.Children) = row.Rect.W
         /\ row.Rect.W > 0

(***************************************************************************)
(* Claims about ansi.Render (SpecRender)                                   *)
(***************************************************************************)
\* A virtual terminal: its cells, the cursor (0-based), and the attributes that
\* the next glyph takes.
VTOf(b) == [cells |-> b, x |-> 0, y |-> 0, fg |-> 0, bg |-> 0, style |-> 0]

\* the attributes after the parameters of one SGR sequence, read left to right
RECURSIVE vtSGR(_, _)
vtSGR(t, ps) ==
    IF ps = <<>> THEN t
    ELSE LET p == Head(ps)
             flag == CASE p = 1 -> Bold [] p = 2 -> Dim [] p = 3 -> Italic
                       [] p = 4 -> Underline [] p = 7 -> Reverse [] OTHER -> 0
         IN IF p = 0 THEN vtSGR([t EXCEPT !.fg = 0, !.bg = 0, !.style = 0], Tail(ps))
            ELSE IF flag # 0
            THEN vtSGR([t EXCEPT !.style = IF hasFlag(t.style, flag) THEN t.style
                                           ELSE t.style + flag], Tail(ps))
            ELSE IF p = 38 /\ Len(ps) >= 3 /\ ps[2] = 5
            THEN vtSGR([t EXCEPT !.fg = ps[3]], SubSeq(ps, 4, Len(ps)))
            ELSE IF p = 48 /\ Len(ps) >= 3 /\ ps[2] = 5
            THEN vtSGR([t EXCEPT !.bg = ps[3]], SubSeq(ps, 4, Len(ps)))
            ELSE vtSGR(t, Tail(ps))

\* the terminal after one control sequence or glyph
vtStep(t, w) ==
    CASE w.op = "CUP" -> [t EXCEPT !.y = w.args[1] - 1, !.x = w.args[2] - 1]
      [] w.op = "SGR" -> vtSGR(t, w.args)
      [] w.op = "Glyph" ->
            IF t.y < BufH(t.cells) /\ t.x < BufW(t.cells)
            THEN [t EXCEPT !.cells = SetCell(t.cells, t.x, t.y,
                                             Cell(w.args[1], t.fg, t.bg, t.style)),
                           !.x = t.x + 1]
            ELSE t

RECURSIVE vtWrite(_, _)
vtWrite(t, ws) == IF ws = <<>> THEN t ELSE vtWrite(vtStep(t, Head(ws)), Tail(ws))

\* the cells a change covers, as <<x, y>>
Covered(changes) ==
    UNION {{<<changes[i].X + k, changes[i].Y>> : k \in 0..(Len(changes[i].Cells) - 1)} :
              i \in DOMAIN changes}

CellAt(b, xy) == At(At(b, xy[2]), xy[1])

\* C11: once Render(Diff(A, B)) is written to a virtual terminal that shows A, every
\* cell covered by a change shows the cell of B at that place, in rune, foreground,
\* background and style
C11_RenderRefinesDiff ==
    frame.done =>
        LET t == vtWrite(VTOf(bufPrev), frame.out)
        IN \A xy \in Covered(frame.changes) : CellAt(t.cells, xy) = CellAt(bufNext, xy)

\* a frame with two changed cells of different attributes, the second of which has
\* fewer attributes than the first, has been rendered
C11_Witness ==
    /\ frame.done
    /\ \E i \in DOMAIN frame.out : \E j \in DOMAIN frame.out :
          /\ i < j
          /\ frame.out[i].op = "SGR" /\ frame.out[j].op = "SGR"
          /\ Len(frame.out[i].args) > Len(frame.out[j].args)
          /\ Len(frame.out[j].args) > 1

(***************************************************************************)
(* Claims about the terminal setup and teardown of App.Run (SpecApp)       *)
(***************************************************************************)
\* the app has stopped: Run has returned, or the process has exited with a panic
Stopped == lpPc \in {"done", "panicked", "crashed"}

Written(call) == \E i \in DOMAIN out : out[i] = call

\* C12: on every way the app stops after startup (nil model, Ctrl-C, closed key
\* channel, cancellation, a panic in update, view or a spawned task) the teardown
\* (disable mouse, disable focus, show cursor, leave alt screen, in this order) has
\* been written exactly once, as the last thing written; before that none of it is
\* written
C12_TeardownOnce ==
    LET n == Len(out)
        k == Len(Teardown)
        isTeardown(i) == \E t \in DOMAIN Teardown : out[i] = Teardown[t]
    IN IF Stopped
       THEN /\ n >= k
            /\ SubSeq(out, n - k + 1, n) = Teardown
            /\ \A i \in 1..(n - k) : ~isTeardown(i)
       ELSE \A i \in 1..n : ~isTeardown(i)

\* C13: from its start on the loop has written the enable sequences of focus
\* reporting, mouse reporting and bracketed paste, and once Run has returned it has
\* written the disable sequence of each of the three
C13_ThreeModesToggled ==
    /\ Written("EnableFocusReporting")
    /\ Written("EnableMouseReporting")
    /\ Written("EnableBracketedPaste")
    /\ lpPc = "done" =>
          /\ Written("DisableFocusReporting")
          /\ Written("DisableMouseReporting")
          /\ Written("DisableBracketedPaste")

(***************************************************************************)
(* Claims about the trailing ESC and the paste remainder (SpecEsc)         *)
(***************************************************************************)
\* The parser of ReadKeys as a function of the reads it receives one after the
\* other, when every ESC wait is ended by the next read and none by the timeout:
\* [keys |-> the keys sent, paste |-> pasteBuf, esc |-> it is in the ESC wait,
\*  done |-> it has returned].
ParserStart == [keys |-> <<>>, paste |-> NilPaste, esc |-> FALSE, done |-> FALSE]

parserTakes(st, rd) ==
    IF st.done THEN st
    ELSE IF rd.err
    THEN [st EXCEPT !.keys = IF st.esc THEN Append(st.keys, Key("Escape")) ELSE st.keys,
                    !.esc = FALSE, !.done = TRUE]
    ELSE IF st.esc
    THEN [st EXCEPT !.keys = st.keys \o onEscFollowUp(rd.data), !.esc = FALSE]
    ELSE LET r == onData(st.paste, rd.data)
         IN [keys |-> st.keys \o r.keys, paste |-> r.paste, esc |-> r.after = "escWait",
             done |-> FALSE]

RECURSIVE parserAfter(_, _)
parserAfter(st, reads) ==
    IF reads = <<>> THEN st ELSE parserAfter(parserTakes(st, Head(reads)), Tail(reads))

\* the keys of the reads, the Escape of an ESC wait that nothing ends but the
\* timeout included
ParseReads(reads) ==
    LET st == parserAfter(ParserStart, reads)
    IN st.keys \o (IF st.esc THEN <<Key("Escape")>> ELSE <<>>)

\* the reads with reads i and i + 1 delivered as one read
Joined(reads, i) ==
    SubSeq(reads, 1, i - 1)
    \o <<readResult(reads[i].data \o reads[i + 1].data, FALSE)>>
    \o SubSeq(reads, i + 2, Len(reads))

\* read i ends in ESC and is taken by the parser for a trailing ESC (outside a
\* paste, not itself the follow-up of an ESC), and read i + 1 begins with [
EscThenBracket(reads, i) ==
    LET before == parserAfter(ParserStart, SubSeq(reads, 1, i - 1))
        a == reads[i]
        b == reads[i + 1]
    IN /\ ~a.err /\ ~b.err
       /\ a.data # <<>> /\ b.data # <<>>
       /\ At(a.data, Len(a.data) - 1) = ESC
       /\ At(b.data, 0) = LBRACKET
       /\ ~before.esc /\ ~before.paste.some /\ ~before.done

\* C14: when a read ends in ESC and the next read comes in time and begins with [,
\* the keys emitted are those of the same reads with the two delivered as one read:
\* at every moment a prefix of them, and all of them once every read is parsed
C14_EscBracketAsOneRead ==
    ~timedOut =>
        \A i \in 1..(Len(reads0) - 1) :
            EscThenBracket(reads0, i) =>
                /\ IsPrefix(emitted, ParseReads(Joined(reads0, i)))
                /\ KeysQuiet => emitted = ParseReads(Joined(reads0, i))

\* read i ends in ESC and is taken by the parser for a trailing ESC, and read i + 1
\* does not begin with [
EscThenOther(reads, i) ==
    LET before == parserAfter(ParserStart, SubSeq(reads, 1, i - 1))
        a == reads[i]
        b == reads[i + 1]
    IN /\ ~a.err /\ ~b.err
       /\ a.data # <<>> /\ b.data # <<>>
       /\ At(a.data, Len(a.data) - 1) = ESC
       /\ At(b.data, 0) # LBRACKET
       /\ ~before.esc /\ ~before.paste.some /\ ~before.done

\* the keys up to the end of read i + 1 as the claim has them: those of the reads
\* before read i, those of the bytes of read i before its ESC, one Escape, those of
\* read i + 1 in byte order
EscapeBetween(reads, i) ==
    parserAfter(ParserStart, SubSeq(reads, 1, i - 1)).keys
    \o parseInput(Slice(reads[i].data, 0, Len(reads[i].data) - 1))
    \o <<Key("Escape")>>
    \o parseInput(reads[i + 1].data)

\* C15: when a read ends in ESC and the next read comes in time and does not begin
\* with [, exactly one Escape is emitted for the ESC, after every key of the bytes
\* before it and before every key of the next read, whose keys follow in byte
\* order: what is emitted runs along that sequence and has it all once every read
\* is parsed
C15_EscapeThenFollowUp ==
    ~timedOut =>
        \A i \in 1..(Len(reads0) - 1) :
            EscThenOther(reads0, i) =>
                /\ IsPrefix(emitted, EscapeBetween(reads0, i))
                   \/ IsPrefix(EscapeBetween(reads0, i), emitted)
                /\ KeysQuiet => IsPrefix(EscapeBetween(reads0, i), emitted)

\* every read is parsed, one of them ending in ESC after a letter and followed in
\* time by a read that is a letter
C15_Witness ==
    /\ ~timedOut
    /\ KeysQuiet
    /\ \E i \in 1..(Len(reads0) - 1) :
          /\ EscThenOther(reads0, i)
          /\ reads0[i].data = <<LetterA, ESC>>
          /\ reads0[i + 1].data = <<LetterB>>
          /\ IsPrefix(EscapeBetween(reads0, i), emitted)

\* read i closes a paste that began in an earlier read, and bytes follow the end
\* marker in it
ClosesPaste(reads, i) ==
    LET before == parserAfter(ParserStart, SubSeq(reads, 1, i - 1))
        all == before.paste.buf \o reads[i].data
        end == indexBytes(all, pasteEnd)
    IN /\ ~reads[i].err
       /\ ~before.done /\ ~before.esc /\ before.paste.some
       /\ end >= 0
       /\ end + Len(pasteEnd) < Len(all)

\* the offset in read i of the first byte after the end marker
RemainderAt(reads, i) ==
    LET before == parserAfter(ParserStart, SubSeq(reads, 1, i - 1))
        all == before.paste.buf \o reads[i].data
    IN indexBytes(all, pasteEnd) + Len(pasteEnd) - Len(before.paste.buf)

\* the reads with the remainder of read i delivered as a read of its own
RemainderApart(reads, i) ==
    SubSeq(reads, 1, i - 1)
    \o <<readResult(Slice(reads[i].data, 0, RemainderAt(reads, i)), FALSE),
         readResult(SliceFrom(reads[i].data, RemainderAt(reads, i)), FALSE)>>
    \o SubSeq(reads, i + 1, Len(reads))

\* C17: the bytes after the end marker in the read that closes a paste begun in an
\* earlier read are handled as a fresh read: the keys emitted are those of the same
\* reads with the remainder delivered as a read of its own, at every moment a
\* prefix of them, and all of them once every read is parsed
C17_RemainderAsFreshRead ==
    ~timedOut =>
        \A i \in 1..Len(reads0) :
            ClosesPaste(reads0, i) =>
                /\ IsPrefix(emitted, ParseReads(RemainderApart(reads0, i)))
                /\ KeysQuiet => emitted = ParseReads(RemainderApart(reads0, i))

\* the number of Escape keys among keys
Escapes(keys) == Len(SelectSeq(keys, LAMBDA k : k.Type = "Escape"))

\* the parser is in the ESC wait and no further read will come
WaitsAlone ==
    /\ psPc = "escWait"
    /\ tty = <<>> /\ rdPc = "read" /\ rawCh = <<>>

\* C16: the parser does not stay in the ESC wait for ever; when no further read
\* comes, the wait ends with exactly one Escape to send unless the parser returns
\* on cancellation, and the context is cancelled or the parser comes back to its
\* outer select with that Escape emitted last
C16_EscWaitEnds ==
    /\ (psPc = "escWait") ~> (psPc # "escWait")
    /\ [][(WaitsAlone /\ psPc' \notin {"escWait", "done"})
             => psPending' = <<Key("Escape")>>]_vars
    /\ WaitsAlone
          ~> (cancelled \/ (psPc = "recv" /\ emitted # <<>>
                             /\ emitted[Len(emitted)] = Key("Escape")
                             /\ Escapes(emitted) >= 1))

\* the wait after the last read has ended by the timeout, without cancellation, and
\* its Escape is the last key emitted
C16_Witness ==
    /\ timedOut /\ ~cancelled
    /\ tty = <<>> /\ rdPc = "read" /\ rawCh = <<>>
    /\ psPc = "recv"
    /\ emitted # <<>>
    /\ emitted[Len(emitted)] = Key("Escape")

(***************************************************************************)
(* Claims about the widths of a Row (SpecLayout)                           *)
(***************************************************************************)
\* the sum of f over the children at the places in S
RECURSIVE SumOver(_, _)
SumOver(f, S) ==
    IF S = {} THEN 0
    ELSE LET i == CHOOSE k \in S : TRUE IN f[i] + SumOver(f, S \ {i})

\* the widths of a Row's children as the claim has them, for the children nodes
\* kids laid out in avail
RECURSIVE ClaimedWidths(_, _, _)
ClaimedWidths(kids, avail, n) ==
    IF n = 0 THEN <<>>
    ELSE LET flexAt == {i \in 1..Len(kids) : flexWeight(kids[i]) > 0}
             intrinsic == [i \in 1..Len(kids) |-> measureWidth(kids[i], avail)]
             weight == [i \in 1..Len(kids) |-> flexWeight(kids[i])]
             fixed == SumOver(intrinsic, (1..Len(kids)) \ flexAt)
             remaining == IF avail.W - fixed < 0 THEN 0 ELSE avail.W - fixed
             earlier == ClaimedWidths(kids, avail, n - 1)
             left == avail.W - SumOver(earlier, 1..(n - 1))
             w == IF n \in flexAt
                  THEN (remaining * weight[n]) \div SumOver(weight, flexAt)
                  ELSE IF intrinsic[n] > left THEN (IF left < 0 THEN 0 ELSE left)
                  ELSE intrinsic[n]
         IN Append(earlier, w)

\* the Row LayoutNode row, laid out in avail, has its children where the claim has
\* them: child i at x = avail.X + the widths allotted before it, with its allotted
\* width, or with its explicit width if that is smaller
RowAsClaimed(row, avail) ==
    LET kids == row.Node.Children
        ws == ClaimedWidths(kids, avail, Len(kids))
    IN /\ Len(row.Children) = Len(kids)
       /\ \A i \in 1..Len(kids) :
             /\ row.Children[i].Rect.X = avail.X + SumOver(ws, 1..(i - 1))
             /\ row.Children[i].Rect.W =
                    IF kids[i].Props.Width > 0 /\ kids[i].Props.Width < ws[i]
                    THEN kids[i].Props.Width ELSE ws[i]

\* Row(Text("ab"), Spacer(), Text("x").WithFlex(2)) of TestRowFlexDistribution
FlexRow == Row(<<Text(TextAB), Spacer, WithFlex(Text(<<120>>), 2)>>)

\* C18: in a Row every flex child is allotted floor(remaining * weight / total flex),
\* remaining being the width of the Row less the intrinsic widths of its non-flex
\* children, not below 0; every non-flex child its intrinsic width clipped to the
\* space left; and the children stand left to right, each at the x of the one
\* before plus the width allotted to that one.  Checked for the root Row and for
\* every Row without explicit size, whose rect is the space it was laid out in;
\* and, whenever a Row has been laid out in a viewport of height 1, for the Row of
\* TestRowFlexDistribution in 20 x 1, which has the widths 2, 6, 12.
C18_RowWidths ==
    lyOut.done =>
        /\ lyOut.ln.Node.Type = "Row" => RowAsClaimed(lyOut.ln, Rect(0, 0, lyW, lyH))
        /\ \A row \in AllLayoutNodes(lyOut.ln) :
              (row.Node.Type = "Row" /\ row.Node.Props.Width = 0
                  /\ row.Node.Props.Height = 0) => RowAsClaimed(row, row.Rect)
        /\ (lyOut.ln.Node.Type = "Row" /\ lyH = 1) =>
              LET ln == Layout(FlexRow, 20, 1)
              IN [i \in 1..3 |-> ln.Children[i].Rect.W] = <<2, 6, 12>>

\* a Row with two flex children whose shares of the width are not whole numbers
C18_Witness ==
    /\ lyOut.done
    /\ lyOut.ln.Node.Type = "Row"
    /\ Len(lyOut.ln.Children) = 2
    /\ \A i \in 1..2 :
          /\ flexWeight(lyOut.ln.Node.Children[i]) > 0
          /\ (lyW * flexWeight(lyOut.ln.Node.Children[i])) % 3 # 0
    /\ totalFlexOf(lyOut.ln.Node.Children) = 3
    /\ SumRectW(lyOut.ln.Children) < lyW

(***************************************************************************)
(* Claims about parseInput (SpecParse)                                     *)
(***************************************************************************)
\* C19: parseInput ends on every byte sequence and stays inside it: at every
\* position of the input an iteration of its loop either returns or moves on by at
\* least one byte and not beyond the end, so the result has at most one key for
\* each byte
C19_ParseInputTotal ==
    /\ \A i \in 0..(Len(piData) - 1) :
          LET st == parseStep(piData, i)
          IN st.stop \/ (st.next > i /\ st.next <= Len(piData))
    /\ piOut.done => Len(piOut.keys) <= Len(piData)

\* parseInput has run on an input that begins with an SGR mouse report cut short
\* and ends in a UTF-8 leader with nothing after it
C19_Witness ==
    /\ piOut.done
    /\ hasPrefixAt(piData, 0, <<ESC, LBRACKET, 60>>)
    /\ At(piData, Len(piData) - 1) >= 192
    /\ piOut.keys # <<>>
    /\ piOut.keys[Len(piOut.keys)] = RuneKeyOf(63)

\* the bytes a UTF-8 sequence with leader b has, 0 if b is no leader
Utf8Size(b) ==
    CASE b >= 192 /\ b < 224 -> 2
      [] b >= 224 /\ b < 240 -> 3
      [] b >= 240 /\ b < 248 -> 4
      [] OTHER -> 0

\* at position i stands a byte >= 0x80 that begins no well-formed sequence: a stray
\* continuation byte, a leader cut short, or a leader with a byte after it that is
\* no continuation byte
InvalidUtf8At(data, i) ==
    LET b == At(data, i)
        size == Utf8Size(b)
    IN /\ b >= 128
       /\ \/ size = 0
          \/ i + size > Len(data)
          \/ \E k \in 1..(size - 1) : At(data, i + k) < 128 \/ At(data, i + k) >= 192

\* C20: invalid UTF-8 is recovered one byte at a time: wherever a stray continuation
\* byte, a leader followed by a byte that is no continuation byte, or a leader cut
\* short stands, the loop of parseInput emits RuneKey('?') and moves on by exactly
\* one byte
C20_InvalidUtf8OneByte ==
    \A i \in 0..(Len(piData) - 1) :
        InvalidUtf8At(piData, i) =>
            parseStep(piData, i) = [keys |-> <<RuneKeyOf(63)>>, next |-> i + 1, stop |-> FALSE]

(***************************************************************************)
(* The event loop of App.Run: how it ends, the order of the messages, the  *)
(* frames (SpecLoop)                                                       *)
(***************************************************************************)
Last(q) == q[Len(q)]

\* C21: when update returns a nil model for a message of a batch, Run returns nil
\* at once: the commands and subscriptions returned with the nil model are not
\* started, and from then on update is called with no message, the later ones of
\* the batch included, no task is started and nothing is rendered
C21_NilModelEnds ==
    [][/\ (exitWhy # "nilModel" /\ exitWhy' = "nilModel")
            => /\ lpPc' = "done" /\ ret' = "nil"
               /\ updated' = Append(updated, msgs[upI])
               /\ tasks' = tasks
               /\ out' = out \o Teardown
       /\ exitWhy = "nilModel"
            => /\ updated' = updated
               /\ out' = out
               /\ idleTasks(tasks') = idleTasks(tasks)
               /\ lpPc' = "done" /\ ret' = "nil"]_vars

\* update has returned a nil model for a message that is not the last of its batch,
\* at a moment when it could have started a command
C21_Witness ==
    /\ exitWhy = "nilModel"
    /\ upI < Len(msgs)
    /\ Last(updated) = msgs[upI]
    /\ idleTasks(tasks) # {}

\* C22: when the loop receives a CtrlC key event, in the blocking wait or in the
\* drain, Run returns nil in that very step: update is called neither with the
\* CtrlC nor with the messages collected before it in the batch, then or later,
\* and nothing is rendered any more
C22_CtrlCEnds ==
    [][/\ (keyCh # <<>> /\ Head(keyCh).Type = "CtrlC" /\ keyCh' = Tail(keyCh))
            => /\ lpPc \in {"select", "drain"}
               /\ lpPc' = "done" /\ ret' = "nil" /\ exitWhy' = "ctrlC"
               /\ updated' = updated
               /\ out' = out \o Teardown
       /\ exitWhy = "ctrlC"
            => /\ updated' = updated
               /\ out' = out
               /\ lpPc' = "done" /\ ret' = "nil"]_vars

\* the loop has received CtrlC in the drain, with a message collected before it in
\* the batch
C22_Witness ==
    /\ exitWhy = "ctrlC"
    /\ msgs # <<>>
    /\ Last(emitted).Type = "CtrlC"
    /\ keyCh = <<>>


\* the messages of a sequence that were made from key events, and those that
\* commands and subscriptions sent
FromKeys(ms) == SelectSeq(ms, LAMBDA m : m.from # "")
FromTasks(ms) == SelectSeq(ms, LAMBDA m : m.kind = "Task")
\* m is a message the loop makes from the key event k
MadeFrom(m, k) == m.from = k.Type /\ (m.kind = "Key" => m.Key = k)

C24_DiffSameSize ==
    /\ prevBuf \in {<<>>, dims}
    /\ (\E i \in DOMAIN msgs : msgs[i].kind = "Resize") => prevBuf = <<>>

\* a frame was rendered, then the terminal was resized to another size, and the
\* loop is about to render a batch that holds the resize and another message
C24_Witness ==
    /\ lpPc = "render"
    /\ Written("Render")
    /\ dims # DefaultSize
    /\ \E i, j \in DOMAIN msgs : msgs[i].kind = "Resize" /\ msgs[j].kind # "Resize"

\* C25: rendering is gated by the frame ticker: a frame is rendered only once the
\* batch has been drained and applied to update, and between two consecutive
\* frames a tick of the frame ticker is received, so that messages arriving faster
\* than the ticker give at most one frame per tick
C25_RenderPerTick ==
    lpPc = "render"
        => /\ upI = Len(msgs) + 1
           /\ Written("Render") => ticked

\* the focus manager call the loop makes for a message before update
FocusCall(m) ==
    IF m.kind = "Key" /\ m.Key.Type = "Tab" THEN <<"Next">>
    ELSE IF m.kind = "Key" /\ m.Key.Type = "ShiftTab" THEN <<"Prev">>
    ELSE IF m.kind = "Key" /\ m.Key.Type = "Escape" THEN <<"PopContext">>
    ELSE <<>>

RECURSIVE FocusCalls(_)
FocusCalls(ms) == IF ms = <<>> THEN <<>> ELSE FocusCall(Head(ms)) \o FocusCalls(Tail(ms))

\* the messages of the current batch the focus loop has gone over and update has
\* not been called with
FocusedAhead ==
    CASE lpPc \in {"update", "render"} -> SubSeq(msgs, upI, Len(msgs))
      [] exitWhy \in {"nilModel", "updatePanic"} -> SubSeq(msgs, upI + 1, Len(msgs))
      [] OTHER -> <<>>

\* C26: for every Tab, ShiftTab or Escape KeyMsg of a batch the focus manager's
\* Next, Prev or PopContext is called exactly once, before update is called with
\* the message; other messages cause no call: the calls made so far are those of
\* the messages update has been called with and of the rest of the batch being
\* applied, in order
C26_FocusBeforeUpdate ==
    IF lpPc = "crashed"
    THEN IsPrefix(FocusCalls(updated), fmOps)
    ELSE fmOps = FocusCalls(updated \o FocusedAhead)

\* update is being called with the Tab of a batch whose Escape is still to come
C26_Witness ==
    /\ lpPc = "update" /\ upI = 1 /\ Len(msgs) = 2
    /\ msgs[1].kind = "Key" /\ msgs[1].Key.Type = "Tab"
    /\ msgs[2].kind = "Key" /\ msgs[2].Key.Type = "Escape"
    /\ fmOps = <<"Next", "PopContext">>
    /\ updated = <<>>


(***************************************************************************)
(* The commands update returns (SpecLoopFair)                              *)
(***************************************************************************)
\* the number of messages of the command or subscription t in a sequence
RECURSIVE CountFrom(_, _)
CountFrom(ms, t) ==
    IF ms = <<>> THEN 0
    ELSE (IF Head(ms).kind = "Task" /\ Head(ms).task = t THEN 1 ELSE 0)
         + CountFrom(Tail(ms), t)

IsCmd(t) == t \in DOMAIN tasks /\ tasks[t].kind = "cmd"

\* C27: a command update returned runs as one task of its own; when it returns a
\* non-nil message, update is eventually called with that message unless the loop
\* has stopped, and is called with it once only; as long as the command has not
\* returned a message, and when it returns nil, update is called with no message
\* of it
C27_CommandDelivered ==
    /\ \A t \in FairTasks :
          (IsCmd(t) /\ tasks[t].pc = "sendLast")
              ~> (Stopped \/ CountFrom(updated, t) = 1)
    /\ [](\A t \in FairTasks :
              IsCmd(t) =>
                  /\ CountFrom(updated, t) <= 1
                  /\ CountFrom(cmdSent, t) <= 1
                  /\ (tasks[t].n = 0 => CountFrom(updated, t) = 0))

\* update has been called with the message of one command while the message of
\* another was waiting in the full cmdCh
C27_Witness ==
    \E t, u \in DOMAIN tasks :
        /\ t # u /\ IsCmd(t) /\ IsCmd(u)
        /\ CountFrom(updated, t) = 1
        /\ CountFrom(cmdCh, u) = 1
        /\ ~Stopped


(***************************************************************************)
(* wrapText packs greedily (SpecWrap)                                      *)
(***************************************************************************)
\* "hello world foo"
HelloWorldFoo ==
    <<104, 101, 108, 108, 111, SP, 119, 111, 114, 108, 100, SP, 102, 111, 111>>

\* the lines of one paragraph are packed greedily for the width w: the first word
\* of a line would not have fitted at the end of the line before it, and a line
\* of two words or more is not longer than w
GreedyLines(ls, w) ==
    /\ \A i \in 1..(Len(ls) - 1) :
          /\ Fields(ls[i + 1]) # <<>>
          /\ Len(ls[i]) + 1 + Len(Fields(ls[i + 1])[1]) > w
    /\ \A i \in DOMAIN ls : Len(Fields(ls[i])) >= 2 => Len(ls[i]) <= w

\* the lines from the k-th on are those of the paragraphs ps, each paragraph's
\* lines packed greedily
RECURSIVE GreedyFrom(_, _, _, _)
GreedyFrom(lines, k, ps, w) ==
    IF ps = <<>> THEN k = Len(lines) + 1
    ELSE LET n == Len(wrapParagraph(Head(ps), w))
         IN /\ k + n - 1 <= Len(lines)
            /\ GreedyLines(SubSeq(lines, k, k + n - 1), w)
            /\ GreedyFrom(lines, k + n, Tail(ps), w)

C28_Examples ==
    /\ wrapText(HelloWorldFoo, 11)
           = <<SubSeq(HelloWorldFoo, 1, 11), SubSeq(HelloWorldFoo, 13, 15)>>
    /\ Len(wrapText(HelloWorldFoo, 6)) = 3

\* C28: wrapText packs words greedily: within a paragraph a word is put on the
\* current line exactly when current_len + 1 + word_len <= max_w, so that for two
\* consecutive lines of one paragraph the first word of the later line would not
\* have fitted on the earlier one, and a line holds a second word only if it fits;
\* wrap("hello world foo", 11) = ["hello world", "foo"] and width 6 gives 3 lines
C28_WrapGreedy ==
    /\ (wrapOut.done /\ wrapW > 0 /\ wrapS # <<>>)
           => GreedyFrom(wrapOut.lines, 1, SplitNL(wrapS), wrapW)
    /\ C28_Examples

\* a paragraph was wrapped into a line of two words that fills the width exactly
\* and a second line
C28_Witness ==
    /\ wrapOut.done
    /\ Len(wrapOut.lines) = 2
    /\ Len(Fields(wrapOut.lines[1])) = 2
    /\ Len(wrapOut.lines[1]) = wrapW
    /\ Len(SplitNL(wrapS)) = 1


(***************************************************************************)
(* The height a Row with a Box reports (SpecRowBox)                        *)
(***************************************************************************)
\* the rows the content of a laid-out Box takes at the width the Box was given
ContentRows(boxLn) == measureHeight(boxLn.Node.Children[1], boxLn.Children[1].Rect)

\* the claim for the Row row, measured by its Column in avail and laid out as rowLn
RowReportsBox(row, rowLn, avail) ==
    /\ measureHeight(row, avail)
           = Max({1} \cup {measureHeight(row.Children[j], avail) : j \in DOMAIN row.Children})
    /\ \A j \in DOMAIN row.Children :
          (row.Children[j].Type = "Box" /\ Len(row.Children[j].Children) > 0)
              => /\ measureHeight(row.Children[j], avail) = ContentRows(rowLn.Children[j]) + 2
                 \* the Column had the rows to give: nothing of the content is cut
                 /\ sumHeights(lyTree.Children, avail) <= avail.H
                        => rowLn.Children[j].Children[1].Rect.H
                               >= ContentRows(rowLn.Children[j])

\* C29: a Row that contains a Box reports the Box's full height: the height
\* measured for the Row is the greatest of its children's measured heights, at
\* least 1, and the height measured for a Box child is the number of rows its
\* content takes when the Row is laid out plus the 2 border rows, so that a Column
\* with rows to spare gives the Row enough of them for the whole content
C29_RowReportsBoxHeight ==
    lyOut.done =>
        \A i \in DOMAIN lyTree.Children :
            lyTree.Children[i].Type = "Row"
                => RowReportsBox(lyTree.Children[i], lyOut.ln.Children[i],
                                 Rect(0, 0, lyW, lyH))


(***************************************************************************)
(* scroll_to_bottom (SpecScroll)                                           *)
(***************************************************************************)
\* the height layoutColumn allots to a child of the scrollable container n, which
\* it does not clip to the viewport
Allotted(n, child, avail) ==
    LET totalFlex == totalFlexOf(n.Children)
        left == avail.H - totalFixedH(n.Children, avail)
    IN IF flexWeight(child) > 0 /\ totalFlex > 0
       THEN ((IF left < 0 THEN 0 ELSE left) * flexWeight(child)) \div totalFlex
       ELSE measureHeight(child, avail)

\* the heights allotted to the first k children of n, summed
RECURSIVE AllottedUpTo(_, _, _)
AllottedUpTo(n, k, avail) ==
    IF k = 0 THEN 0
    ELSE AllottedUpTo(n, k - 1, avail) + Allotted(n, n.Children[k], avail)

\* what the claim says the children are shifted up by
ClaimedShift(n, avail) ==
    LET C == AllottedUpTo(n, Len(n.Children), avail)
    IN IF C > avail.H THEN Max({C - avail.H - n.Props.ScrollOffset, 0}) ELSE 0

\* C30: in a Column, List or Pane with scroll_to_bottom whose content height C
\* exceeds the viewport height, every child is shifted up by
\* max(C - avail.h - scroll_offset, 0): with scroll_offset = 0 the last child's
\* allotment ends at the bottom of the viewport, a larger scroll_offset moves the
\* content down, the first child is never below the top of the viewport; when
\* C <= avail.h nothing is shifted
C30_ScrollToBottom ==
    (lyOut.done /\ lyTree.Props.ScrollToBottom /\ lyTree.Children # <<>>) =>
        LET n == lyTree
            avail == Rect(0, 0, lyW, lyH)
            k == Len(n.Children)
            C == AllottedUpTo(n, k, avail)
            kids == lyOut.ln.Children
            further == Layout(WithScrollOffset(n, n.Props.ScrollOffset + 1), lyW, lyH)
        IN /\ Len(kids) = k
           /\ \A i \in 1..k :
                 kids[i].Rect.Y = AllottedUpTo(n, i - 1, avail) - ClaimedShift(n, avail)
           /\ (C > lyH /\ n.Props.ScrollOffset = 0)
                  => kids[k].Rect.Y + Allotted(n, n.Children[k], avail) = lyH
           /\ \A i \in 1..k : further.Children[i].Rect.Y >= kids[i].Rect.Y
           /\ kids[1].Rect.Y <= 0
           /\ C <= lyH => kids[1].Rect.Y = 0

\* a container whose content is taller than the viewport, scrolled back by less
\* than the overflow: its children are shifted up, by less than the overflow
C30_Witness ==
    /\ lyOut.done /\ lyTree.Props.ScrollToBottom
    /\ Len(lyTree.Children) = 2
    /\ lyTree.Props.ScrollOffset = 1
    /\ AllottedUpTo(lyTree, 2, Rect(0, 0, lyW, lyH)) = lyH + 2
    /\ lyH > 0
    /\ lyOut.ln.Children[1].Rect.Y = 0 - 1


(***************************************************************************)
(* Box, explicit size, stacking (SpecPlace)                                *)
(***************************************************************************)
\* the inner rect of a Box laid out in avail, as the claim gives it
ClaimedInner(avail) ==
    Rect(avail.X + 1, avail.Y + 1, Max({avail.W - 2, 0}), Max({avail.H - 2, 0}))

\* the Box LayoutNode box, laid out in avail, holds its first child laid out in the
\* inner rect and nothing else
BoxAsClaimed(box, avail) ==
    box.Children = <<layout(box.Node.Children[1], ClaimedInner(avail))>>

\* Box(Single, Text("hi")) in 20x10
BoxHi == Layout(Box(<<Text(<<104, 105>>)>>), 20, 10)

\* C31: for a Box with at least one child laid out in avail = (x, y, w, h), the
\* first child is laid out in the inner rect (x+1, y+1, max(w-2, 0), max(h-2, 0))
\* and no other child of the Box appears in the layout; Box(Single, Text("hi")) in
\* 20x10 puts the child at (1, 1, 18, 1).  The root is laid out in the viewport, a
\* Box without explicit size in its own rect.
C31_BoxFirstChildInset ==
    /\ Len(BoxHi.Children) = 1 /\ BoxHi.Children[1].Rect = Rect(1, 1, 18, 1)
    /\ lyOut.done =>
          /\ (lyTree.Type = "Box" /\ lyTree.Children # <<>>)
                 => BoxAsClaimed(lyOut.ln, Rect(0, 0, lyW, lyH))
          /\ \A box \in AllLayoutNodes(lyOut.ln) :
                 (/\ box.Node.Type = "Box" /\ box.Node.Children # <<>>
                  /\ box.Node.Props.Width = 0 /\ box.Node.Props.Height = 0)
                     => BoxAsClaimed(box, box.Rect)

\* a Box with two children in a viewport its inset fits in: one child laid out, at
\* (1, 1), two columns narrower than the viewport
C31_Witness ==
    /\ lyOut.done /\ lyTree.Type = "Box" /\ Len(lyTree.Children) = 2
    /\ lyW >= 3 /\ lyH >= 3
    /\ Len(lyOut.ln.Children) = 1
    /\ lyOut.ln.Children[1].Node = lyTree.Children[1]
    /\ lyOut.ln.Children[1].Rect.X = 1 /\ lyOut.ln.Children[1].Rect.Y = 1
    /\ lyOut.ln.Children[1].Rect.W = lyW - 2

\* the LayoutNode ln of a node laid out in avail has the rect the node would have
\* without explicit size, shrunk to the explicit width and height
SizedAsClaimed(ln, avail) ==
    LET n == ln.Node
        computed == layout(WithSize(n, 0, 0), avail)
    IN /\ ln.Rect.W = IF n.Props.Width > 0 THEN Min({computed.Rect.W, n.Props.Width})
                      ELSE computed.Rect.W
       /\ ln.Rect.H = IF n.Props.Height > 0 THEN Min({computed.Rect.H, n.Props.Height})
                      ELSE computed.Rect.H
       /\ ln.Rect.W <= avail.W /\ ln.Rect.H <= avail.H
       /\ ln.Rect.X = computed.Rect.X /\ ln.Rect.Y = computed.Rect.Y
       /\ ln.Rect.X = avail.X /\ ln.Rect.Y = avail.Y

\* C32: an explicit width or height on a node only ever shrinks the node's resolved
\* rect: the resulting width is min(computed width, explicit width) when the
\* explicit width is > 0 and the computed width otherwise (same for height), the
\* rect never becomes larger than the allocation it was given, and the rect's x and
\* y are left unchanged.  Checked for the root, laid out in the viewport, and for
\* the child of a root Box, laid out in the Box's inner rect.
C32_ExplicitSizeShrinks ==
    lyOut.done =>
        /\ SizedAsClaimed(lyOut.ln, Rect(0, 0, lyW, lyH))
        /\ (lyTree.Type = "Box" /\ lyTree.Children # <<>>)
               => SizedAsClaimed(lyOut.ln.Children[1], boxInner(Rect(0, 0, lyW, lyH)))

\* a Column with an explicit size smaller than the viewport in both directions:
\* its rect is the explicit size, its children keep the width of the viewport
C32_Witness ==
    /\ lyOut.done /\ lyTree.Type = "Column"
    /\ lyTree.Props.Width = 2 /\ lyTree.Props.Height = 1
    /\ lyW = 5 /\ lyH = 3
    /\ lyOut.ln.Rect = Rect(0, 0, 2, 1)
    /\ lyOut.ln.Children[1].Rect.W = 5

\* the height a Column that does not scroll allots to child number i, laid out in
\* avail, and the y it places it at
RECURSIVE StackY(_, _, _)
StackH(n, i, avail) ==
    LET left == avail.H - (StackY(n, i, avail) - avail.Y)
    IN Max({Min({Allotted(n, n.Children[i], avail), left}), 0})
StackY(n, i, avail) ==
    IF i = 1 THEN avail.Y ELSE StackY(n, i - 1, avail) + StackH(n, i - 1, avail)

\* the children of the Column, List or Pane col, laid out in avail, are stacked and
\* stay inside avail vertically
StackAsClaimed(col, avail) ==
    /\ Len(col.Children) = Len(col.Node.Children)
    /\ \A i \in 1..Len(col.Children) :
          LET child == col.Children[i]
          IN /\ child.Rect.Y = StackY(col.Node, i, avail)
             /\ child.Rect.H <= StackH(col.Node, i, avail)
             /\ avail.Y <= child.Rect.Y
             /\ child.Rect.Y + child.Rect.H <= avail.Y + avail.H

IsStack(n) ==
    /\ n.Type \in {"Column", "List", "Pane"}
    /\ n.Props.ScrollOffset = 0 /\ ~n.Props.ScrollToBottom

\* C33: in a Column/List/Pane that is not scrollable (scroll_offset = 0 and
\* scroll_to_bottom false), children are stacked top to bottom, each child's y being
\* the previous child's y plus the previous child's allotted height, and every
\* child's rect stays inside the viewport vertically: avail.y <= child.y and
\* child.y + child.h <= avail.y + avail.h.  Checked for the root and for the child
\* of a root Box.
C33_ColumnStacksInside ==
    lyOut.done =>
        /\ IsStack(lyTree) => StackAsClaimed(lyOut.ln, Rect(0, 0, lyW, lyH))
        /\ (lyTree.Type = "Box" /\ lyTree.Children # <<>> /\ IsStack(lyTree.Children[1]))
               => StackAsClaimed(lyOut.ln.Children[1], boxInner(Rect(0, 0, lyW, lyH)))

\* a Column of two texts of two lines each in a viewport of three rows: the second
\* text starts at row 2 and is cut to the one row left
C33_Witness ==
    /\ lyOut.done /\ IsStack(lyTree) /\ Len(lyTree.Children) = 2
    /\ lyH = 3
    /\ measureHeight(lyTree.Children[2], Rect(0, 0, lyW, lyH)) = 2
    /\ lyOut.ln.Children[1].Rect.H = 2
    /\ lyOut.ln.Children[2].Rect.Y = 2
    /\ lyOut.ln.Children[2].Rect.H = 1


(***************************************************************************)
(* What Render writes (SpecRender)                                         *)
(***************************************************************************)
\* the cells of the changes, in the order they are written
RECURSIVE FlatCells(_)
FlatCells(changes) ==
    IF changes = <<>> THEN <<>> ELSE Head(changes).Cells \o FlatCells(Tail(changes))

StyleOf(c) == <<c.FG, c.BG, c.Style>>

\* what the claim has Render write for cell number i of all the cells written
CellAsClaimed(cells, i) ==
    (IF i = 1 \/ StyleOf(cells[i]) # StyleOf(cells[i - 1])
     THEN <<writeSGR(cells[i].FG, cells[i].BG, cells[i].Style)>> ELSE <<>>)
    \o <<Glyph(cells[i].Rune)>>

\* ... for the cells number from to to
RECURSIVE CellsAsClaimed(_, _, _)
CellsAsClaimed(cells, from, to) ==
    IF from > to THEN <<>>
    ELSE CellAsClaimed(cells, from) \o CellsAsClaimed(cells, from + 1, to)

\* ... for the changes from number k on, written cells before them
RECURSIVE ChangesAsClaimed(_, _, _)
ChangesAsClaimed(changes, k, written) ==
    IF k > Len(changes) THEN IF written > 0 THEN <<SGR(<<0>>)>> ELSE <<>>
    ELSE LET n == Len(changes[k].Cells)
         IN <<CUP(changes[k].Y + 1, changes[k].X + 1)>>
            \o CellsAsClaimed(FlatCells(changes), written + 1, written + n)
            \o ChangesAsClaimed(changes, k + 1, written + n)

CountOp(written, op) == Cardinality({i \in 1..Len(written) : written[i].op = op})

\* one change of two equal-styled cells
TwoEqualStyled ==
    <<Change(1, 0, <<Cell(LetterA, 5, 0, Bold), Cell(LetterB, 5, 0, Bold)>>)>>

\* C34: Render emits, for a list of changes, exactly one cursor-position sequence
\* ESC[y+1;x+1H per change, an SGR sequence before a cell only when that cell is
\* the first cell of the whole render or its (fg, bg, style) differs from the
\* previously written cell's (also across changes), and exactly one final ESC[0m
\* if and only if at least one cell was written; one change of two equal-styled
\* cells gives one cursor move, one SGR, the two glyphs, one reset.
C34_RenderSequences ==
    /\ Render(TwoEqualStyled)
           = <<CUP(1, 2), SGR(<<0, 1, 38, 5, 5>>), Glyph(LetterA), Glyph(LetterB), SGR(<<0>>)>>
    /\ Render(<<>>) = <<>>
    /\ frame.done =>
          /\ frame.out = ChangesAsClaimed(frame.changes, 1, 0)
          /\ CountOp(frame.out, "CUP") = Len(frame.changes)
          /\ CountOp(frame.out, "Glyph") = Len(FlatCells(frame.changes))
          /\ (frame.out # <<>> /\ Last(frame.out) = SGR(<<0>>))
                 <=> FlatCells(frame.changes) # <<>>

\* two changes whose cells have the same colours and style: two cursor moves, one
\* SGR before the first cell, none before the second change's cell, one reset
C34_Witness ==
    /\ frame.done /\ Len(frame.changes) = 2
    /\ StyleOf(frame.changes[1].Cells[1]) = <<5, 0, Bold>>
    /\ StyleOf(frame.changes[2].Cells[1]) = <<5, 0, Bold>>
    /\ Len(frame.out) = 6
    /\ frame.out[2].op = "SGR" /\ frame.out[4].op = "CUP" /\ frame.out[5].op = "Glyph"
    /\ frame.out[6] = SGR(<<0>>)


(***************************************************************************)
(* The byte-to-key table (SpecTable)                                       *)
(***************************************************************************)
\* C35: for each row of the byte-to-key table, parseInput applied to exactly those
\* bytes returns exactly one event of the listed type, and a concatenation of table
\* entries returns the concatenation of their events in order.
C35_TableRowsParse ==
    piOut.done => piOut.keys = [i \in 1..Len(piRows) |-> Key(piRows[i].key)]

\* a legacy report of the wheel, then the kitty sequence of Shift+Enter: two events
C35_Witness ==
    /\ piOut.done /\ Len(piRows) = 2
    /\ piRows[1] = CSIRow(<<77, 96, 33, 33>>, "MouseScrollUp")
    /\ piRows[2] = CSIRow(<<49, 51, 59, 50, 117>>, "ShiftEnter")
    /\ piOut.keys = <<Key("MouseScrollUp"), Key("ShiftEnter")>>


(***************************************************************************)
(* The calls of update and view (SpecCalls)                                *)
(***************************************************************************)
\* the calls of a.Update and a.View in progress, each with the goroutine that made
\* it: <<"loop", 0>> for Run's goroutine, <<"task", t>> for the goroutine of task t
InProgress ==
    (IF lpPc = "inUpdate" THEN {<<"Update", "loop", 0>>} ELSE {})
    \cup (IF lpPc = "inView" THEN {<<"View", "loop", 0>>} ELSE {})
    \cup {<<"Update", "task", t>> : t \in {u \in DOMAIN tasks : tasks[u].pc = "inUpdate"}}
    \cup {<<"View", "task", t>> : t \in {u \in DOMAIN tasks : tasks[u].pc = "inView"}}

\* C36: update and view are only ever invoked from the event-loop task and never
\* concurrently: at no point are two update calls, or an update call and a view
\* call, in progress at the same time, whatever commands and subscriptions are
\* running and sending messages.
C36_UpdateViewSerial ==
    /\ Cardinality(InProgress) <= 1
    /\ \A c \in InProgress : c[2] = "loop"

\* a.Update is in progress while the goroutine of one task is about to send its
\* message and that of another runs
C36_Witness ==
    /\ lpPc = "inUpdate"
    /\ \E t, u \in DOMAIN tasks :
          tasks[t].pc \in {"send", "sendLast"} /\ tasks[u].pc = "run"

(***************************************************************************)
(* Every message reaches update once (SpecLoop)                            *)
(***************************************************************************)
\* the messages of the batch that a.Update has not been called with yet
Pending == SubSeq(msgs, upI, Len(msgs))

\* one step of Run neither drops a message of the batch nor hands one to a.Update a
\* second time: the batch grows at its end, or is emptied once a.Update was called
\* with all of it, or Run ends; a.Update is called with the first pending message,
\* which is pending no more
DeliversOnce ==
    /\ msgs' # msgs
           => \/ msgs' # <<>> /\ msgs' = Append(msgs, Last(msgs'))
              \/ msgs' = <<>> /\ Pending = <<>>
    /\ updated' # updated
           => /\ Pending # <<>>
              /\ updated' = Append(updated, Head(Pending))
              /\ Stopped' \/ upI' = upI + 1
    /\ upI' # upI
           => \/ /\ upI' = upI + 1 /\ msgs' = msgs /\ Pending # <<>>
                 /\ updated' = Append(updated, Head(Pending))
              \/ upI' = 1 /\ msgs' = <<>> /\ Pending = <<>>

\* C37 as claimed: whenever needsRender is false the pending batch is empty, and a
\* frame-ticker wake-up with no collected message calls neither update nor view:
\* Run is about to call a.Update or a.View only with a message in the batch.
C37_IdleWakeUp ==
    /\ ~needsRender => msgs = <<>>
    /\ lpPc \in {"update", "render"} => msgs # <<>>

\* C37 as amended: every message collected by the event loop is passed to update
\* exactly once, never dropped and never applied twice, unless the loop exits first;
\* whenever needsRender is false the pending batch is empty; once the first frame
\* has been rendered, a wake-up with no collected message calls neither update nor
\* view.  The first wake-up renders the first frame with no message collected,
\* needsRender being true at the start.
C37_DeliveredOnce ==
    /\ [][DeliversOnce]_vars
    /\ [](~needsRender => msgs = <<>>)
    /\ []((lpPc \in {"update", "render"} /\ Written("Render")) => msgs # <<>>)
    /\ []((lpPc = "render" /\ msgs = <<>>) => (needsRender /\ updated = <<>>))

\* a batch of two messages, a.Update called with both, after an earlier frame
C37_Witness ==
    /\ lpPc = "render" /\ Len(msgs) = 2 /\ Pending = <<>>
    /\ Written("Render")
    /\ SubSeq(updated, Len(updated) - 1, Len(updated)) = msgs


(***************************************************************************)
(* Pasted bytes are no keys (SpecKeys)                                     *)
(***************************************************************************)
\* a key that only a byte between the paste markers can have produced: the streams
\* with a paste carry the bytes of PasteAlphabet there and nowhere else
FromPasted(k) ==
    \/ k.Type = "CtrlC"
    \/ k \in {RuneKeyOf(b) : b \in PasteAlphabet}

\* C38: bytes between a paste start marker and its end marker never produce key
\* events of their own: whatever the pasted content is and however the paste is
\* split across reads, the only event derived from those bytes is the Paste event,
\* so pasted text can never inject a CtrlC, Enter or other control key into the
\* application.
C38_PastedBytesNoKeys ==
    HasPaste(stream) => \A i \in 1..Len(emitted) : ~FromPasted(emitted[i])


(***************************************************************************)
(* wrapText keeps the words (SpecWrap)                                     *)
(***************************************************************************)
\* the whitespace-separated words of the lines, line after line
RECURSIVE WordsOf(_)
WordsOf(ls) == IF ls = <<>> THEN <<>> ELSE Fields(Head(ls)) \o WordsOf(Tail(ls))

\* C39: wrapText neither loses nor reorders words: for w > 0, splitting every
\* output line into whitespace-separated words and concatenating the results in
\* order gives exactly the whitespace-separated words of the input in their
\* original order.
C39_WrapKeepsWords ==
    (wrapOut.done /\ wrapW > 0) => WordsOf(wrapOut.lines) = Fields(wrapS)

\* three words in two paragraphs, the first paragraph wrapped into two lines
C39_Witness ==
    /\ wrapOut.done /\ wrapW > 0
    /\ Len(SplitNL(wrapS)) = 2
    /\ Len(Fields(SplitNL(wrapS)[1])) = 2
    /\ Len(Fields(wrapS)) = 3
    /\ Len(wrapOut.lines) = 3
    /\ \A i \in 1..3 : Fields(wrapOut.lines[i]) = <<Fields(wrapS)[i]>>


(***************************************************************************)
(* Claims about TextInput (SpecText)                                       *)
(***************************************************************************)
\* C40: for a TextInput that started as NewTextInput, after any sequence of Update
\* (with any key type), Paste and Submit the cursor is inside the value:
\* 0 <= Cursor <= the number of runes in Value.
C40_CursorInside ==
    /\ 0 <= textInput.Cursor
    /\ textInput.Cursor <= Len(Runes(textInput.Value))

\* Down on a two-line value whose last line is shorter than the cursor's column, and
\* whose first rune was inserted as a surrogate half: the cursor is at the very end
C40_Witness ==
    /\ tiLast = <<"Update", "Down">>
    /\ textInput.Value = <<RuneError, LetterA, NL, LetterA>>
    /\ textInput.Cursor = 4

=============================================================================
